---- MODULE Spec2Model ----
(***************************************************************************)
(* Leave management backend (vignesh05p/lms): the relational store         *)
(* (Database/db.sql) and the HTTP handlers that read and write it          *)
(* (Backend/internal/handlers).  Every handler is one action; a handler    *)
(* that opens a transaction works on a private copy of the tables that is  *)
(* installed on Commit and discarded by the deferred Rollback.             *)
(*                                                                         *)
(* Dates are day numbers counted from 2024-01-01 (day 0, a Monday).        *)
(***************************************************************************)
EXTENDS Integers, Sequences, FiniteSets, TLC

\* ------------------------------------------------------------------ bounds
\* rows of leave_requests, rows of employees, days a request may span after
\* 2024-02-01, new years the clock passes, and the number of calls that
\* commit a write in one run
MaxRequests == 2
NumEmployees == 2
MaxSpan == 4
MaxYearAdvance == 1
MaxWrites == 4
\* handlers that run at the same time
MaxInflight == 2
\* rows of leave_types
MaxLeaveTypes == 3
\* rows of users
NumUsers == 2
\* rows of refresh_tokens
MaxTokens == 3

\* --------------------------------------------------------------- calendar
BaseYear == 2024
\* 2024-02-01 as a day number
BaseDay == 31
\* days of calendar year y
YearLength(y) == IF y % 4 = 0 THEN 366 ELSE 365
MinYear == 2020
MaxYear == 2050

NULL == 0
EmployeeIds == 1 .. NumEmployees
\* an id that is never the id of an employee row
GhostId == NumEmployees + 1
LeaveTypeIds == {1, 2}
Years == BaseYear .. (BaseYear + MaxYearAdvance)
\* the days a request may name: Wed 2024-01-31, Thu 2024-02-01 and the last
\* day, Mon 2024-02-05 when MaxSpan is 4
Dates == {BaseDay - 1, BaseDay, BaseDay + MaxSpan}

VARIABLES employees, leave_types, balances, requests, clock, writes, last, inflight,
          users, refresh_tokens

vars == <<employees, leave_types, balances, requests, clock, writes, last, inflight,
          users, refresh_tokens>>

\* time.Now().Year()
CurrentYear == BaseYear + clock
\* time.Now() truncated to the day: a day of February of the current year
Today == (BaseDay + 9) + YearLength(BaseYear) * clock

\* NOW(): a timestamp is kept only as "set", never compared
Timestamp == 1

\* EXTRACT(ISODOW FROM d): 1 = Monday .. 7 = Sunday
ISODOW(d) == (d % 7) + 1

\* calculate_working_days(start_date, end_date): Mon-Fri days of the
\* inclusive range; generate_series is empty when start_date > end_date
calculate_working_days(start_date, end_date) ==
    Cardinality({d \in start_date .. end_date : ISODOW(d) < 6})

\* the seeded leave_types rows that the model keeps
SeedLeaveTypes ==
    [lt \in LeaveTypeIds |->
        IF lt = 1
        THEN [name |-> "Emergency Leave", max_days_per_year |-> 5,
              carry_forward_allowed |-> FALSE, max_carry_forward_days |-> 0,
              is_active |-> TRUE]
        ELSE [name |-> "Compensatory Leave", max_days_per_year |-> 10,
              carry_forward_allowed |-> TRUE, max_carry_forward_days |-> 3,
              is_active |-> TRUE]]

\* the seeded departments: ids 1..5 exist
DepartmentIds == 1 .. 5

\* ------------------------------------------------------ table constraints
\* employee_leave_balances.available_days (generated column)
available_days(row) == row.allocated_days + row.carried_forward_days - row.used_days

\* CHECK constraints of employee_leave_balances
BalanceRowOKNoLimit(row, year) ==
    /\ row.allocated_days >= 0
    /\ row.used_days >= 0
    /\ row.carried_forward_days >= 0
    /\ year >= MinYear /\ year <= MaxYear

BalanceRowOK(row, year) ==
    /\ row.allocated_days >= 0
    /\ row.used_days >= 0
    /\ row.carried_forward_days >= 0
    /\ row.used_days <= row.allocated_days + row.carried_forward_days
    /\ year >= MinYear /\ year <= MaxYear

\* CHECK and FOREIGN KEY constraints of leave_requests
RequestRowOK(row, emps) ==
    /\ row.employee_id \in DOMAIN emps
    /\ row.leave_type_id \in LeaveTypeIds
    /\ row.end_date >= row.start_date
    /\ row.total_days > 0
    /\ row.approved_by = NULL \/ row.approved_by \in DOMAIN emps
    /\ (row.status = "approved" /\ row.approved_by # NULL /\ row.approved_at # NULL)
         \/ row.status # "approved"

\* check_leave_overlap with the status filter left out
check_leave_overlapAnyStatus(reqs, p_employee_id, p_start_date, p_end_date, p_exclude_request_id) ==
    \E i \in 1 .. Len(reqs) :
        /\ reqs[i].employee_id = p_employee_id
        /\ (p_exclude_request_id = NULL \/ i # p_exclude_request_id)
        /\ ~ (reqs[i].end_date < p_start_date \/ reqs[i].start_date > p_end_date)

\* the plpgsql check_leave_overlap of the earlier schema: COUNT(*) of the rows
\* with start_date <= p_end_date AND end_date >= p_start_date, then count > 0
check_leave_overlap_count(reqs, p_employee_id, p_start_date, p_end_date, p_exclude_request_id) ==
    LET overlap_count ==
            Cardinality({i \in 1 .. Len(reqs) :
                /\ reqs[i].employee_id = p_employee_id
                /\ reqs[i].status \in {"approved", "pending"}
                /\ (p_exclude_request_id = NULL \/ i # p_exclude_request_id)
                /\ (reqs[i].start_date <= p_end_date /\ reqs[i].end_date >= p_start_date)})
    IN  overlap_count > 0

\* check_leave_overlap(p_employee_id, p_start_date, p_end_date, p_exclude_request_id)
check_leave_overlap(reqs, p_employee_id, p_start_date, p_end_date, p_exclude_request_id) ==
    \E i \in 1 .. Len(reqs) :
        /\ reqs[i].employee_id = p_employee_id
        /\ reqs[i].status \in {"pending", "approved"}
        /\ (p_exclude_request_id = NULL \/ i # p_exclude_request_id)
        /\ ~ (reqs[i].end_date < p_start_date \/ reqs[i].start_date > p_end_date)

\* ------------------------------------------------------------ transactions
\* the tables a handler's transaction reads and writes
DB == [employees |-> employees, balances |-> balances, requests |-> requests]

RollbackKeepingWrites(committed, working) == working

\* deferred tx.Rollback: the uncommitted writes of the transaction are dropped
Rollback(committed, working) == committed

\* the goroutines that serve requests at the same time
Procs == 1 .. MaxInflight

\* a goroutine that serves no request: the locals of a handler, all unset
Idle ==
    [op |-> "idle", pc |-> "idle", id |-> NULL, approvedBy |-> NULL,
     employeeID |-> NULL, leaveTypeID |-> NULL, start |-> NULL, end |-> NULL,
     totalDays |-> 0, snapshot |-> << >>, tx |-> << >>]

\* ---------------------------------------------------------------- handlers
\* the count of calls that answered 200 or 201, after a call that answered res
Written(res) == IF res \in {"ok", "Created"} THEN writes + 1 ELSE writes

\* POST /leave-requests (ApplyLeave): the response and the table after it
\* totalDays := int(end.Sub(start).Hours()/24) + 1
ApplyTotalDays(start, end) == (end - start) + 1

ApplyDatesOrderedSwapped(start, end) == ~ (end > start)

\* the date test of ApplyLeave: passes unless start.After(end)
ApplyDatesOrdered(start, end) == ~ (start > end)

ApplyJoinedByStrict(joiningDate, start) == joiningDate < start

\* the joining test of ApplyLeave: passes unless joiningDate.After(start)
ApplyJoinedBy(joiningDate, start) == ~ (joiningDate > start)

ApplyAvailableDaysZeroValue(bals, key) ==
    IF key \in DOMAIN bals THEN <<available_days(bals[key])>> ELSE <<0>>

\* SELECT available_days FROM employee_leave_balances WHERE employee_id, leave_type_id,
\* year: <<n>> for the row's value, << >> when Scan finds no row
ApplyAvailableDays(bals, key) ==
    IF key \in DOMAIN bals THEN <<available_days(bals[key])>> ELSE << >>

ApplySufficientStrict(totalDays, availableDays) == totalDays < availableDays

ApplySufficientExclusiveEnd(totalDays, availableDays) == ~ (totalDays - 1 > availableDays)

\* the balance test of ApplyLeave: passes unless totalDays > availableDays
ApplySufficient(totalDays, availableDays) == ~ (totalDays > availableDays)

ApplyHasOverlapApprovedOnly(reqs, employeeID, start, end) ==
    \E i \in 1 .. Len(reqs) :
        /\ reqs[i].employee_id = employeeID
        /\ reqs[i].status = "approved"
        /\ ~ (reqs[i].end_date < start \/ reqs[i].start_date > end)

\* SELECT check_leave_overlap($1, $2, $3, NULL)
ApplyHasOverlap(reqs, employeeID, start, end) ==
    check_leave_overlap(reqs, employeeID, start, end, NULL)

NewRequestAutoApproved(employeeID, leaveTypeID, start, end, totalDays) ==
    [employee_id |-> employeeID, leave_type_id |-> leaveTypeID,
     start_date |-> start, end_date |-> end, total_days |-> totalDays,
     status |-> "approved", approved_by |-> employeeID, approved_at |-> Timestamp,
     rejection_reason |-> "NULL"]

\* INSERT INTO leave_requests (...) VALUES ($1, $2, $3, $4, $5, $6, 'pending', ...)
NewRequest(employeeID, leaveTypeID, start, end, totalDays) ==
    [employee_id |-> employeeID, leave_type_id |-> leaveTypeID,
     start_date |-> start, end_date |-> end, total_days |-> totalDays,
     status |-> "pending", approved_by |-> NULL, approved_at |-> NULL,
     rejection_reason |-> "NULL"]

ApplyLeaveHandler(db, year, employeeID, leaveTypeID, start, end, reason) ==
    LET key == <<employeeID, leaveTypeID, year>>
        totalDays == ApplyTotalDays(start, end)
        row == NewRequest(employeeID, leaveTypeID, start, end, totalDays)
        availableDays == ApplyAvailableDays(db.balances, key)
    IN  IF reason = ""
        THEN [result |-> "InvalidInput", requests |-> db.requests]
        ELSE IF ~ ApplyDatesOrdered(start, end)
        THEN [result |-> "InvalidDateRange", requests |-> db.requests]
        ELSE IF employeeID \notin DOMAIN db.employees
        THEN [result |-> "InvalidEmployee", requests |-> db.requests]
        ELSE IF ~ ApplyJoinedBy(db.employees[employeeID].joining_date, start)
        THEN [result |-> "BeforeJoining", requests |-> db.requests]
        ELSE IF availableDays = << >>
        THEN [result |-> "NoBalanceRecord", requests |-> db.requests]
        ELSE IF ~ ApplySufficient(totalDays, availableDays[1])
        THEN [result |-> "InsufficientBalance", requests |-> db.requests]
        ELSE IF ApplyHasOverlap(db.requests, employeeID, start, end)
        THEN [result |-> "OverlappingRequest", requests |-> db.requests]
        ELSE IF ~ RequestRowOK(row, db.employees)
        THEN [result |-> "CreateFailed", requests |-> db.requests]
        ELSE [result |-> "Created", requests |-> Append(db.requests, row)]

\* one ApplyLeave call with start_date and end_date drawn from dates
ApplyLeaveOn(dates) ==
    /\ Len(requests) < MaxRequests
    /\ writes < MaxWrites
    /\ \E employeeID \in EmployeeIds, leaveTypeID \in LeaveTypeIds,
          start \in dates, end \in dates, reason \in {"", "vacation"} :
          LET r == ApplyLeaveHandler(DB, CurrentYear, employeeID, leaveTypeID, start, end, reason)
          IN  /\ requests' = r.requests
              /\ last' = [op |-> "ApplyLeave", result |-> r.result,
                          id |-> IF r.result = "Created" THEN Len(r.requests) ELSE NULL,
                          pre_status |-> "none"]
              /\ writes' = Written(r.result)
    /\ UNCHANGED <<employees, leave_types, balances, clock, inflight, users, refresh_tokens>>

ApplyLeave == ApplyLeaveOn(Dates)

\* Sat 2024-02-03 and Sun 2024-02-04
WeekendDates == {BaseDay + 2, BaseDay + 3}

\* an ApplyLeave call for a range that lies in one weekend
ApplyLeaveWeekend == ApplyLeaveOn(WeekendDates)

\* the statements of a handler at which the driver or the server can fail
FaultPoints == {"none", "begin", "update_request", "update_balance", "commit"}

\* UPDATE leave_requests SET status='approved', approved_by=$1, approved_at=NOW() WHERE id=$2
SetApproved(reqs, id, approvedBy, now) ==
    IF id \in 1 .. Len(reqs)
    THEN [reqs EXCEPT ![id] = [@ EXCEPT !.status = "approved",
                                       !.approved_by = approvedBy,
                                       !.approved_at = now]]
    ELSE reqs

ApproveLookupZeroValue(reqs, id) ==
    IF id \in 1 .. Len(reqs) THEN <<reqs[id]>>
    ELSE <<[employee_id |-> NULL, leave_type_id |-> NULL, total_days |-> 0]>>

\* SELECT employee_id, leave_type_id, total_days FROM leave_requests WHERE id=$1:
\* <<row>>, or << >> when Scan finds no row
ApproveLookup(reqs, id) ==
    IF id \in 1 .. Len(reqs) THEN <<reqs[id]>> ELSE << >>

AddUsedDaysAnyEmployee(bals, totalDays, employeeID, leaveTypeID, year) ==
    [k \in DOMAIN bals |->
        IF k[2] = leaveTypeID /\ k[3] = year
        THEN [bals[k] EXCEPT !.used_days = @ + totalDays]
        ELSE bals[k]]

\* UPDATE employee_leave_balances SET used_days = used_days + $1
\*   WHERE employee_id=$2 AND leave_type_id=$3 AND year=$4
AddUsedDays(bals, totalDays, employeeID, leaveTypeID, year) ==
    [k \in DOMAIN bals |->
        IF k = <<employeeID, leaveTypeID, year>>
        THEN [bals[k] EXCEPT !.used_days = @ + totalDays]
        ELSE bals[k]]

\* every row of the table satisfies the table's CHECK constraints
\* the constraints of the rows without check_used_days_limit
BalancesOKNoLimit(bals) == \A k \in DOMAIN bals : BalanceRowOKNoLimit(bals[k], k[3])

BalancesOK(bals) == \A k \in DOMAIN bals : BalanceRowOK(bals[k], k[3])

\* PUT /leave-requests/:id/approve (ApproveLeaveRequest)
ApproveLeaveRequestHandler(db, year, id, approvedBy, fault) ==
    LET unchanged(res) == [result |-> res, requests |-> db.requests, balances |-> db.balances]
        found == ApproveLookup(db.requests, id)
    IN  IF approvedBy = NULL
        THEN unchanged("BadRequest")
        ELSE IF found = << >>
        THEN unchanged("RequestNotFound")
        ELSE IF fault = "begin"
        THEN unchanged("BeginFailed")
        ELSE
        LET req == found[1]
            tx1 == [db EXCEPT !.requests = SetApproved(db.requests, id, approvedBy, Timestamp)]
            tx2 == [tx1 EXCEPT !.balances =
                       AddUsedDays(tx1.balances, req.total_days, req.employee_id,
                                   req.leave_type_id, year)]
            failed(res, working) ==
                LET after == Rollback(db, working)
                IN  [result |-> res, requests |-> after.requests, balances |-> after.balances]
        IN  IF \/ fault = "update_request"
               \/ (id \in 1 .. Len(tx1.requests) /\ ~ RequestRowOK(tx1.requests[id], db.employees))
            THEN failed("ApproveFailed", db)
            ELSE IF fault = "update_balance" \/ ~ BalancesOK(tx2.balances)
            THEN failed("BalanceUpdateFailed", tx1)
            ELSE IF fault = "commit"
            THEN failed("CommitFailed", tx2)
            ELSE [result |-> "ok", requests |-> tx2.requests, balances |-> tx2.balances]

\* the status a handler finds for request id, "none" when there is no such row
StatusOf(reqs, id) == IF id \in 1 .. Len(reqs) THEN reqs[id].status ELSE "none"

RequestIdInputs == 1 .. MaxRequests

\* approved_by as submitted: missing, the first employee, an id of no employee
ApprovedByInputs == {NULL, 1, GhostId}

ApproveLeaveRequest ==
    /\ writes < MaxWrites
    /\ \E id \in RequestIdInputs, approvedBy \in ApprovedByInputs, fault \in FaultPoints :
        LET r == ApproveLeaveRequestHandler(DB, CurrentYear, id, approvedBy, fault)
        IN  /\ requests' = r.requests
            /\ balances' = r.balances
            /\ last' = [op |-> "ApproveLeaveRequest", result |-> r.result, id |-> id,
                        pre_status |-> StatusOf(requests, id)]
            /\ writes' = Written(r.result)
            /\ UNCHANGED <<employees, leave_types, clock, inflight, users, refresh_tokens>>

SetRejectedNoReason(reqs, id, rejectionReason) ==
    IF id \in 1 .. Len(reqs)
    THEN [reqs EXCEPT ![id] = [@ EXCEPT !.status = "rejected"]]
    ELSE reqs

\* UPDATE leave_requests SET status='rejected', rejection_reason=$1 WHERE id=$2
SetRejected(reqs, id, rejectionReason) ==
    IF id \in 1 .. Len(reqs)
    THEN [reqs EXCEPT ![id] = [@ EXCEPT !.status = "rejected",
                                       !.rejection_reason = rejectionReason]]
    ELSE reqs

\* PUT /leave-requests/:id/reject (RejectLeaveRequest)
RejectLeaveRequestHandler(db, id, rejectionReason) ==
    IF rejectionReason = ""
    THEN [result |-> "BadRequest", requests |-> db.requests, balances |-> db.balances]
    ELSE [result |-> "ok", requests |-> SetRejected(db.requests, id, rejectionReason),
          balances |-> db.balances]

RejectLeaveRequest ==
    /\ writes < MaxWrites
    /\ \E id \in RequestIdInputs, rejectionReason \in {"", "busy"} :
        LET r == RejectLeaveRequestHandler(DB, id, rejectionReason)
        IN  /\ requests' = r.requests
            /\ balances' = r.balances
            /\ last' = [op |-> "RejectLeaveRequest", result |-> r.result, id |-> id,
                        pre_status |-> StatusOf(requests, id)]
            /\ writes' = Written(r.result)
            /\ UNCHANGED <<employees, leave_types, clock, inflight, users, refresh_tokens>>

\* UPDATE leave_requests SET status='cancelled' WHERE id=$1
SetCancelled(reqs, id) ==
    IF id \in 1 .. Len(reqs)
    THEN [reqs EXCEPT ![id] = [@ EXCEPT !.status = "cancelled"]]
    ELSE reqs

CancelRestoringBalance(db, year, id) ==
    [result |-> "ok", requests |-> SetCancelled(db.requests, id),
     balances |-> IF id \in 1 .. Len(db.requests) /\ db.requests[id].status = "approved"
                  THEN AddUsedDays(db.balances, 0 - db.requests[id].total_days,
                                   db.requests[id].employee_id,
                                   db.requests[id].leave_type_id, year)
                  ELSE db.balances]

\* PUT /leave-requests/:id/cancel (CancelLeaveRequest)
CancelLeaveRequestHandler(db, year, id) ==
    [result |-> "ok", requests |-> SetCancelled(db.requests, id), balances |-> db.balances]

CancelLeaveRequest ==
    /\ writes < MaxWrites
    /\ \E id \in RequestIdInputs :
        LET r == CancelLeaveRequestHandler(DB, CurrentYear, id)
        IN  /\ requests' = r.requests
            /\ balances' = r.balances
            /\ last' = [op |-> "CancelLeaveRequest", result |-> r.result, id |-> id,
                        pre_status |-> StatusOf(requests, id)]
            /\ writes' = Written(r.result)
            /\ UNCHANGED <<employees, leave_types, clock, inflight, users, refresh_tokens>>

init_leave_balancesAllTypes(bals, types, newID, year) ==
    [k \in DOMAIN bals \cup {<<newID, lt, year>> : lt \in DOMAIN types} |->
        IF k \in DOMAIN bals THEN bals[k]
        ELSE [allocated_days |-> types[k[2]].max_days_per_year,
              used_days |-> 0, carried_forward_days |-> 0]]

\* init_leave_balances(), the AFTER INSERT trigger of employees: one row per
\* active leave type for the year of CURRENT_DATE (a plain INSERT: a row that
\* is already there violates the UNIQUE constraint)
init_leave_balances(bals, types, newID, year) ==
    [k \in DOMAIN bals \cup {<<newID, lt, year>> : lt \in {t \in DOMAIN types : types[t].is_active}} |->
        IF k \in DOMAIN bals THEN bals[k]
        ELSE [allocated_days |-> types[k[2]].max_days_per_year,
              used_days |-> 0, carried_forward_days |-> 0]]

\* INSERT INTO employee_leave_balances ... SELECT ... FROM leave_types lt
\*   WHERE lt.is_active = true ON CONFLICT (...) DO NOTHING
AllocateBalances(bals, types, newID, year) ==
    [k \in DOMAIN bals \cup {<<newID, lt, year>> : lt \in {t \in DOMAIN types : types[t].is_active}} |->
        IF k \in DOMAIN bals THEN bals[k]
        ELSE [allocated_days |-> types[k[2]].max_days_per_year,
              used_days |-> 0, carried_forward_days |-> 0]]

CreateDepartmentExistsUnchecked(departmentID) == TRUE

\* SELECT EXISTS (SELECT 1 FROM departments WHERE id=$1)
CreateDepartmentExists(departmentID) == departmentID \in DepartmentIds

CreateFaultPoints == {"none", "begin", "insert_employee", "allocate", "commit"}

\* POST /employees (CreateEmployee)
CreateEmployeeHandler(db, types, today, year, name, email, departmentID, joinDate, fault) ==
    LET unchanged(res) == [result |-> res, employees |-> db.employees, balances |-> db.balances]
        newID == Len(db.employees) + 1
        row == [email |-> email, name |-> name, department_id |-> departmentID,
                joining_date |-> joinDate, role |-> "employee", is_active |-> TRUE]
        tx1 == [db EXCEPT !.employees = Append(db.employees, row),
                          !.balances = init_leave_balances(db.balances, types, newID, year)]
        tx2 == [tx1 EXCEPT !.balances = AllocateBalances(tx1.balances, types, newID, year)]
        failed(res, working) ==
            LET after == Rollback(db, working)
            IN  [result |-> res, employees |-> after.employees, balances |-> after.balances]
    IN  IF name = "" \/ email = ""
        THEN unchanged("BadRequest")
        ELSE IF joinDate > today
        THEN unchanged("JoiningInFuture")
        ELSE IF fault = "begin"
        THEN unchanged("BeginFailed")
        ELSE IF ~ CreateDepartmentExists(departmentID)
        THEN failed("DepartmentNotFound", db)
        ELSE IF \/ fault = "insert_employee"
                \/ departmentID \notin DepartmentIds
                \/ \E e \in DOMAIN db.employees : db.employees[e].email = email
                \/ joinDate > today
                \/ ~ BalancesOK(tx1.balances)
        THEN failed("InsertEmployeeFailed", db)
        ELSE IF fault = "allocate" \/ ~ BalancesOK(tx2.balances)
        THEN failed("AllocateFailed", tx1)
        ELSE IF fault = "commit"
        THEN failed("CommitFailed", tx2)
        ELSE [result |-> "Created", employees |-> tx2.employees, balances |-> tx2.balances]

\* joining dates a caller submits: 2024-02-01 and tomorrow
JoinDateInputs == {BaseDay, Today + 1}

CreateEmployee ==
    /\ Len(employees) < NumEmployees
    /\ writes < MaxWrites
    /\ \E name \in {"", "Ann"}, email \in {"", "a@lms.io", "b@lms.io"},
          departmentID \in {1, 6}, joinDate \in JoinDateInputs, fault \in CreateFaultPoints :
          LET r == CreateEmployeeHandler(DB, leave_types, Today, CurrentYear, name, email,
                                         departmentID, joinDate, fault)
          IN  /\ employees' = r.employees
              /\ balances' = r.balances
              /\ last' = [op |-> "CreateEmployee", result |-> r.result,
                          id |-> IF r.result = "Created" THEN Len(r.employees) ELSE NULL,
                          pre_status |-> "none"]
              /\ writes' = Written(r.result)
    /\ UNCHANGED <<leave_types, requests, clock, inflight, users, refresh_tokens>>

\* a *int field of UpdateLeaveBalanceDTO: << >> is nil, <<v>> points to v
IsNil(p) == p = << >>

Deref(p, default) == IF p = << >> THEN default ELSE p[1]

\* UPDATE employee_leave_balances SET <the fields given> WHERE employee_id, leave_type_id, year
UpdateBalance(bals, key, a, u, cf) ==
    IF key \in DOMAIN bals
    THEN LET row == [allocated_days |-> Deref(a, bals[key].allocated_days),
                     used_days |-> Deref(u, bals[key].used_days),
                     carried_forward_days |-> Deref(cf, bals[key].carried_forward_days)]
         IN  IF BalanceRowOK(row, key[3])
             THEN [ok |-> TRUE, rows |-> 1, balances |-> [bals EXCEPT ![key] = row]]
             ELSE [ok |-> FALSE, rows |-> 0, balances |-> bals]
    ELSE [ok |-> TRUE, rows |-> 0, balances |-> bals]

\* PUT /employees/:id/leave-balances (UpdateLeaveBalances)
UpdateLeaveBalancesHandler(db, types, currentYear, employeeID, leaveTypeID, a, u, cf, y) ==
    LET unchanged(res) == [result |-> res, balances |-> db.balances]
        year == Deref(y, currentYear)
        key == <<employeeID, leaveTypeID, year>>
        upd == UpdateBalance(db.balances, key, a, u, cf)
        row == [allocated_days |-> Deref(a, 0), used_days |-> Deref(u, 0),
                carried_forward_days |-> Deref(cf, 0)]
    IN  IF employeeID \notin DOMAIN db.employees
        THEN unchanged("EmployeeNotFound")
        ELSE IF leaveTypeID \notin DOMAIN types
        THEN unchanged("LeaveTypeNotFound")
        ELSE IF year < MinYear \/ year > MaxYear
        THEN unchanged("InvalidYear")
        ELSE IF \/ (~ IsNil(a) /\ a[1] < 0)
                \/ (~ IsNil(u) /\ u[1] < 0)
                \/ (~ IsNil(cf) /\ cf[1] < 0)
        THEN unchanged("NegativeDays")
        ELSE IF IsNil(a) /\ IsNil(u) /\ IsNil(cf)
        THEN unchanged("NoFields")
        ELSE IF ~ upd.ok
        THEN unchanged("UpdateFailed")
        ELSE IF upd.rows = 0
        THEN IF BalanceRowOK(row, year)
             THEN [result |-> "ok", balances |->
                      [k \in DOMAIN db.balances \cup {key} |->
                          IF k = key THEN row ELSE db.balances[k]]]
             ELSE unchanged("InsertFailed")
        ELSE [result |-> "ok", balances |-> upd.balances]

\* the bodies a caller submits: <<allocated_days, used_days, carried_forward_days>>
UpdateLeaveBalanceDTOs ==
    { << << >>, << >>, << >> >>,
      << <<3>>, << >>, << >> >>,
      << << >>, <<-1>>, << >> >>,
      << << >>, <<4>>, << >> >>,
      << <<2>>, << >>, <<1>> >>,
      << <<3>>, <<4>>, << >> >> }

UpdateLeaveBalances ==
    /\ writes < MaxWrites
    /\ \E employeeID \in EmployeeIds, leaveTypeID \in LeaveTypeIds \cup {3},
          in \in UpdateLeaveBalanceDTOs, y \in {<< >>, <<MinYear - 1>>} :
          LET r == UpdateLeaveBalancesHandler(DB, leave_types, CurrentYear, employeeID,
                                              leaveTypeID, in[1], in[2], in[3], y)
          IN  /\ balances' = r.balances
              /\ writes' = Written(r.result)
              /\ last' = [op |-> "UpdateLeaveBalances", result |-> r.result,
                          id |-> NULL, pre_status |-> "none"]
    /\ UNCHANGED <<employees, leave_types, requests, clock, inflight, users, refresh_tokens>>

\* if !in.CarryForwardAllowed { in.MaxCarryForwardDays = 0 }
CreateCarryForwardDays(cfAllowed, maxCf) == IF ~ cfAllowed THEN 0 ELSE maxCf

\* POST /leave-types (CreateLeaveType): name is the trimmed name, isActive a
\* pointer (<< >> is nil); the INSERT fails on a name that is taken
CreateLeaveTypeHandler(types, name, maxDays, cfAllowed, maxCf, isActive) ==
    IF name = ""
    THEN [result |-> "BadRequest", leave_types |-> types]
    ELSE IF maxDays < 0 \/ maxCf < 0
    THEN [result |-> "BadRequest", leave_types |-> types]
    ELSE IF \E t \in DOMAIN types : types[t].name = name
    THEN [result |-> "CreateFailed", leave_types |-> types]
    ELSE [result |-> "Created", leave_types |->
             Append(types,
                    [name |-> name,
                     max_days_per_year |-> maxDays,
                     carry_forward_allowed |-> cfAllowed,
                     max_carry_forward_days |-> CreateCarryForwardDays(cfAllowed, maxCf),
                     is_active |-> IF isActive = << >> THEN TRUE ELSE isActive[1]])]

\* the names, day counts and is_active pointers a caller submits
LeaveTypeNames == {"", "Emergency Leave", "Study Leave"}
MaxDaysInputs == {-1, 5}
CarryForwardDaysInputs == {-1, 0, 2}

CreateLeaveType ==
    /\ writes < MaxWrites
    /\ Len(leave_types) < MaxLeaveTypes
    /\ \E name \in LeaveTypeNames, maxDays \in MaxDaysInputs, cfAllowed \in BOOLEAN,
          maxCf \in CarryForwardDaysInputs, isActive \in {<< >>, <<FALSE>>} :
          LET r == CreateLeaveTypeHandler(leave_types, name, maxDays, cfAllowed, maxCf, isActive)
          IN  /\ leave_types' = r.leave_types
              /\ writes' = Written(r.result)
              /\ last' = [op |-> "CreateLeaveType", result |-> r.result,
                          id |-> NULL, pre_status |-> "none"]
    /\ UNCHANGED <<employees, balances, requests, clock, inflight, users, refresh_tokens>>

\* UPDATE leave_types SET <the fields given> WHERE id: the row after the update
SetLeaveType(row, name, maxDays, cfAllowed, maxCf, isActive) ==
    [name |-> Deref(name, row.name),
     max_days_per_year |-> Deref(maxDays, row.max_days_per_year),
     carry_forward_allowed |-> Deref(cfAllowed, row.carry_forward_allowed),
     max_carry_forward_days |-> Deref(maxCf, row.max_carry_forward_days),
     is_active |-> Deref(isActive, row.is_active)]

\* PUT /leave-types/:id (UpdateLeaveType)
UpdateLeaveTypeHandler(types, id, name, maxDays, cfAllowed, maxCf, isActive) ==
    IF ~ IsNil(name) /\ name[1] = ""
    THEN [result |-> "BadRequest", leave_types |-> types]
    ELSE IF ~ IsNil(maxDays) /\ maxDays[1] < 0
    THEN [result |-> "BadRequest", leave_types |-> types]
    ELSE IF ~ IsNil(maxCf) /\ maxCf[1] < 0
    THEN [result |-> "BadRequest", leave_types |-> types]
    ELSE IF IsNil(name) /\ IsNil(maxDays) /\ IsNil(cfAllowed) /\ IsNil(maxCf) /\ IsNil(isActive)
    THEN [result |-> "NoFields", leave_types |-> types]
    ELSE IF id \notin DOMAIN types
    THEN [result |-> "LeaveTypeNotFound", leave_types |-> types]
    ELSE IF \E t \in DOMAIN types : t # id /\ ~ IsNil(name) /\ types[t].name = name[1]
    THEN [result |-> "UpdateFailed", leave_types |-> types]
    ELSE [result |-> "ok", leave_types |->
             [types EXCEPT ![id] = SetLeaveType(@, name, maxDays, cfAllowed, maxCf, isActive)]]

\* the bodies a caller submits:
\* <<name, max_days_per_year, carry_forward_allowed, max_carry_forward_days, is_active>>
UpdateLeaveTypeDTOs ==
    { << << >>, << >>, << >>, << >>, << >> >>,
      << <<"">>, << >>, << >>, << >>, << >> >>,
      << << >>, <<-1>>, << >>, << >>, << >> >>,
      << << >>, <<3>>, << >>, << >>, << >> >>,
      << << >>, << >>, << >>, << >>, <<TRUE>> >> }

\* bodies that set the carry-forward fields
CarryForwardDTOs ==
    { << << >>, << >>, <<FALSE>>, << >>, << >> >>,
      << << >>, << >>, <<TRUE>>, << >>, << >> >>,
      << << >>, << >>, << >>, <<2>>, << >> >>,
      << << >>, << >>, << >>, <<0>>, << >> >>,
      << << >>, << >>, << >>, <<-1>>, << >> >>,
      << << >>, << >>, <<FALSE>>, <<0>>, << >> >> }

UpdateLeaveTypeWith(dtos) ==
    /\ writes < MaxWrites
    /\ \E id \in 1 .. MaxLeaveTypes, in \in dtos :
          LET r == UpdateLeaveTypeHandler(leave_types, id, in[1], in[2], in[3], in[4], in[5])
          IN  /\ leave_types' = r.leave_types
              /\ writes' = Written(r.result)
              /\ last' = [op |-> "UpdateLeaveType", result |-> r.result,
                          id |-> NULL, pre_status |-> "none"]
    /\ UNCHANGED <<employees, balances, requests, clock, inflight, users, refresh_tokens>>

UpdateLeaveType == UpdateLeaveTypeWith(UpdateLeaveTypeDTOs)

UpdateLeaveTypeCarryForward == UpdateLeaveTypeWith(UpdateLeaveTypeDTOs \cup CarryForwardDTOs)

\* DELETE /leave-types/:id (DeleteLeaveType): UPDATE leave_types SET is_active=false
DeleteLeaveTypeHandler(types, id) ==
    IF id \notin DOMAIN types
    THEN [result |-> "LeaveTypeNotFound", leave_types |-> types]
    ELSE [result |-> "ok", leave_types |-> [types EXCEPT ![id].is_active = FALSE]]

DeleteLeaveType ==
    /\ writes < MaxWrites
    /\ \E id \in 1 .. MaxLeaveTypes :
          LET r == DeleteLeaveTypeHandler(leave_types, id)
          IN  /\ leave_types' = r.leave_types
              /\ writes' = Written(r.result)
              /\ last' = [op |-> "DeleteLeaveType", result |-> r.result,
                          id |-> NULL, pre_status |-> "none"]
    /\ UNCHANGED <<employees, balances, requests, clock, inflight, users, refresh_tokens>>

\* ------------------------------------------------------------- audit logs
\* a string is the tuple of its characters
DecimalDigits == <<"0", "1", "2", "3", "4", "5", "6", "7", "8", "9">>
DigitValue(c) == (CHOOSE i \in 1 .. 10 : DecimalDigits[i] = c) - 1
IsDigit(c) == \E i \in 1 .. 10 : DecimalDigits[i] = c

RECURSIVE ParseDigits(_, _)
ParseDigits(str, acc) ==
    IF str = << >> THEN acc
    ELSE ParseDigits(Tail(str), acc * 10 + DigitValue(Head(str)))

\* strconv.Atoi(v): an optional sign, then one or more decimal digits
Atoi(v) ==
    LET signed == v # << >> /\ Head(v) \in {"+", "-"}
        digits == IF signed THEN Tail(v) ELSE v
    IN  IF digits = << >> \/ \E i \in 1 .. Len(digits) : ~ IsDigit(digits[i])
        THEN [err |-> TRUE, n |-> 0]
        ELSE [err |-> FALSE,
              n |-> IF signed /\ Head(v) = "-"
                    THEN 0 - ParseDigits(digits, 0)
                    ELSE ParseDigits(digits, 0)]

\* strconv.Itoa(n) of a number that is not negative
RECURSIVE Itoa(_)
Itoa(n) ==
    IF n < 10 THEN <<DecimalDigits[n + 1]>>
    ELSE Append(Itoa(n \div 10), DecimalDigits[(n % 10) + 1])

DefaultLimit == 50
MaxLimit == 200

\* GetAuditLogs with "if n > 0" in place of "if n > 0 && n <= 200"
AuditLimitNoMax(v) ==
    IF v = << >> THEN DefaultLimit
    ELSE LET r == Atoi(v)
         IN  IF ~ r.err /\ r.n > 0 THEN r.n ELSE DefaultLimit

\* limit := 50; if v := c.Query("limit"); v != "" { if n, err := Atoi(v);
\* err == nil { if n > 0 && n <= 200 { limit = n } } }
AuditLimit(v) ==
    IF v = << >> THEN DefaultLimit
    ELSE LET r == Atoi(v)
         IN  IF ~ r.err /\ r.n > 0 /\ r.n <= MaxLimit THEN r.n ELSE DefaultLimit

\* q += " LIMIT " + strconv.Itoa(limit): the number of rows the query returns
\* when matching rows of audit_logs pass its filters
AuditRows(limit, matching) ==
    LET clause == ParseDigits(Itoa(limit), 0)
    IN  IF matching < clause THEN matching ELSE clause

\* the values of the limit parameter a caller sends (<< >>: none or empty)
LimitParams ==
    { << >>, <<"0">>, <<"1">>, <<"7">>, <<"5", "0">>, <<"5", "1">>,
      <<"1", "9", "9">>, <<"2", "0", "0">>, <<"2", "0", "1">>, <<"9", "9", "9">>,
      <<"-", "1">>, <<"+", "7">>, <<"0", "0", "7">>, <<"a", "l", "l">>,
      <<"1", "x">>, <<"-">> }
\* the numbers of audit_logs rows that pass the filters of a query
MatchingRows == {0, 1, 49, 50, 51, 200, 201, 999}

\* GET /audit-logs (GetAuditLogs)
GetAuditLogs ==
    /\ \E v \in LimitParams, matching \in MatchingRows :
          last' = [op |-> "GetAuditLogs", result |-> "ok", id |-> NULL,
                   pre_status |-> "none", param |-> v, matching |-> matching,
                   limit |-> AuditLimit(v),
                   rows |-> AuditRows(AuditLimit(v), matching)]
    /\ UNCHANGED <<employees, leave_types, balances, requests, clock, writes, inflight, users, refresh_tokens>>

\* the wall clock passes into the next calendar year
NewYear ==
    /\ clock < MaxYearAdvance
    /\ writes < MaxWrites
    /\ writes' = writes + 1
    /\ clock' = clock + 1
    /\ last' = [op |-> "NewYear", result |-> "ok", id |-> NULL, pre_status |-> "none"]
    /\ UNCHANGED <<employees, leave_types, balances, requests, inflight, users, refresh_tokens>>

Init ==
    /\ employees = << >>
    /\ leave_types = SeedLeaveTypes
    /\ balances = << >>
    /\ requests = << >>
    /\ clock = 0
    /\ writes = 0
    /\ last = [op |-> "init", result |-> "ok", id |-> NULL, pre_status |-> "none"]
    /\ inflight = [p \in Procs |-> Idle]
    /\ users = << >>
    /\ refresh_tokens = << >>

Next ==
    \/ CreateEmployee
    \/ UpdateLeaveBalances
    \/ ApplyLeave
    \/ ApproveLeaveRequest
    \/ RejectLeaveRequest
    \/ CancelLeaveRequest
    \/ NewYear

Spec == Init /\ [][Next]_vars

\* the same handlers, with the leave types edited between the calls
NextLeaveTypes == Next \/ UpdateLeaveType \/ DeleteLeaveType

SpecLeaveTypes == Init /\ [][NextLeaveTypes]_vars

\* the administration of the leave types on its own
NextLeaveTypeAdmin == CreateLeaveType \/ UpdateLeaveTypeCarryForward \/ DeleteLeaveType

SpecLeaveTypeAdmin == Init /\ [][NextLeaveTypeAdmin]_vars

\* the queries of the audit log on their own
SpecAudit == Init /\ [][GetAuditLogs]_vars

\* the same handlers, with requests for weekend ranges among the calls
NextWeekend == Next \/ ApplyLeaveWeekend

SpecWeekend == Init /\ [][NextWeekend]_vars

\* ------------------------------------------------- handlers, statement by statement
\* Handlers run in goroutines of their own: between two statements that one
\* handler sends to the database, other handlers send theirs.  A statement
\* outside a transaction commits on its own; the statements of a transaction
\* become visible together at Commit.  Every statement reads the rows as
\* committed at the moment it runs (READ COMMITTED, the default of the pool).

\* the handlers that have not answered yet
Busy == {p \in Procs : inflight[p] # Idle}

\* the handler of p answers res and its goroutine ends
Respond(p, op, res, id, pre) ==
    /\ inflight' = [inflight EXCEPT ![p] = Idle]
    /\ last' = [op |-> op, result |-> res, id |-> id, pre_status |-> pre]
    /\ writes' = Written(res)

\* the handler of p goes on to its next statement with the locals loc
Continue(p, loc) ==
    /\ inflight' = [inflight EXCEPT ![p] = loc]
    /\ UNCHANGED <<last, writes>>

\* ApplyLeave up to SELECT joining_date FROM employees
ApplyLeaveSelectJoining(p) ==
    /\ inflight[p] = Idle
    /\ Len(requests) + Cardinality({q \in Busy : inflight[q].op = "ApplyLeave"}) < MaxRequests
    /\ writes + Cardinality(Busy) < MaxWrites
    /\ \E employeeID \in EmployeeIds, leaveTypeID \in LeaveTypeIds,
          start \in Dates, end \in Dates, reason \in {"", "vacation"} :
          IF reason = ""
          THEN Respond(p, "ApplyLeave", "InvalidInput", NULL, "none")
          ELSE IF ~ ApplyDatesOrdered(start, end)
          THEN Respond(p, "ApplyLeave", "InvalidDateRange", NULL, "none")
          ELSE IF employeeID \notin DOMAIN employees
          THEN Respond(p, "ApplyLeave", "InvalidEmployee", NULL, "none")
          ELSE IF ~ ApplyJoinedBy(employees[employeeID].joining_date, start)
          THEN Respond(p, "ApplyLeave", "BeforeJoining", NULL, "none")
          ELSE Continue(p, [Idle EXCEPT !.op = "ApplyLeave", !.pc = "balance",
                                        !.employeeID = employeeID, !.leaveTypeID = leaveTypeID,
                                        !.start = start, !.end = end])
    /\ UNCHANGED <<employees, leave_types, balances, requests, clock, users, refresh_tokens>>

\* ApplyLeave: SELECT available_days FROM employee_leave_balances, and the balance test
ApplyLeaveSelectBalance(p) ==
    /\ inflight[p].op = "ApplyLeave" /\ inflight[p].pc = "balance"
    /\ LET loc == inflight[p]
           availableDays == ApplyAvailableDays(balances, <<loc.employeeID, loc.leaveTypeID, CurrentYear>>)
           totalDays == ApplyTotalDays(loc.start, loc.end)
       IN  IF availableDays = << >>
           THEN Respond(p, "ApplyLeave", "NoBalanceRecord", NULL, "none")
           ELSE IF ~ ApplySufficient(totalDays, availableDays[1])
           THEN Respond(p, "ApplyLeave", "InsufficientBalance", NULL, "none")
           ELSE Continue(p, [loc EXCEPT !.pc = "overlap", !.totalDays = totalDays])
    /\ UNCHANGED <<employees, leave_types, balances, requests, clock, users, refresh_tokens>>

\* ApplyLeave: SELECT check_leave_overlap($1, $2, $3, NULL)
ApplyLeaveCheckOverlap(p) ==
    /\ inflight[p].op = "ApplyLeave" /\ inflight[p].pc = "overlap"
    /\ LET loc == inflight[p]
       IN  IF ApplyHasOverlap(requests, loc.employeeID, loc.start, loc.end)
           THEN Respond(p, "ApplyLeave", "OverlappingRequest", NULL, "none")
           ELSE Continue(p, [loc EXCEPT !.pc = "insert"])
    /\ UNCHANGED <<employees, leave_types, balances, requests, clock, users, refresh_tokens>>

InsertConflictsExclusion(reqs, row) ==
    check_leave_overlap(reqs, row.employee_id, row.start_date, row.end_date, NULL)

\* leave_requests has no UNIQUE or EXCLUDE constraint over (employee_id, dates):
\* no row that is already there makes an INSERT fail
InsertConflicts(reqs, row) == FALSE

\* ApplyLeave: INSERT INTO leave_requests
ApplyLeaveInsert(p) ==
    /\ inflight[p].op = "ApplyLeave" /\ inflight[p].pc = "insert"
    /\ LET loc == inflight[p]
           row == NewRequest(loc.employeeID, loc.leaveTypeID, loc.start, loc.end, loc.totalDays)
       IN  IF ~ RequestRowOK(row, employees) \/ InsertConflicts(requests, row)
           THEN /\ Respond(p, "ApplyLeave", "CreateFailed", NULL, "none")
                /\ UNCHANGED requests
           ELSE /\ requests' = Append(requests, row)
                /\ Respond(p, "ApplyLeave", "Created", Len(requests) + 1, "none")
    /\ UNCHANGED <<employees, leave_types, balances, clock, users, refresh_tokens>>

\* the row lock of leave_requests row id is held by a transaction other than p's
RequestRowLocked(p, id) ==
    \E q \in Procs \ {p} :
        /\ inflight[q].op = "ApproveLeaveRequest"
        /\ inflight[q].pc \in {"update_balance", "commit"}
        /\ inflight[q].id = id

\* the row lock of employee_leave_balances row key is held by a transaction other than p's
BalanceRowLocked(p, key) ==
    \E q \in Procs \ {p} : inflight[q].tx # << >> /\ inflight[q].tx[1] = key

\* ApproveLeaveRequest up to tx.Begin: the binding, the SELECT of the request
ApproveSelect(p) ==
    /\ inflight[p] = Idle
    /\ writes + Cardinality(Busy) < MaxWrites
    /\ \E id \in RequestIdInputs, approvedBy \in ApprovedByInputs :
          IF approvedBy = NULL
          THEN Respond(p, "ApproveLeaveRequest", "BadRequest", id, StatusOf(requests, id))
          ELSE IF id \notin 1 .. Len(requests)
          THEN Respond(p, "ApproveLeaveRequest", "RequestNotFound", id, "none")
          ELSE Continue(p, [Idle EXCEPT !.op = "ApproveLeaveRequest", !.pc = "update_request",
                                        !.id = id, !.approvedBy = approvedBy,
                                        !.employeeID = requests[id].employee_id,
                                        !.leaveTypeID = requests[id].leave_type_id,
                                        !.totalDays = requests[id].total_days,
                                        !.snapshot = balances])
    /\ UNCHANGED <<employees, leave_types, balances, requests, clock, users, refresh_tokens>>

\* ApproveLeaveRequest: UPDATE leave_requests SET status='approved' in the
\* transaction; the statement waits while another transaction holds the row
ApproveUpdateRequest(p) ==
    /\ inflight[p].op = "ApproveLeaveRequest" /\ inflight[p].pc = "update_request"
    /\ ~ RequestRowLocked(p, inflight[p].id)
    /\ LET loc == inflight[p]
           row == SetApproved(requests, loc.id, loc.approvedBy, Timestamp)[loc.id]
       IN  IF ~ RequestRowOK(row, employees)
           THEN Respond(p, "ApproveLeaveRequest", "ApproveFailed", loc.id, StatusOf(requests, loc.id))
           ELSE Continue(p, [loc EXCEPT !.pc = "update_balance"])
    /\ UNCHANGED <<employees, leave_types, balances, requests, clock, users, refresh_tokens>>

TxAddUsedDaysFromSnapshot(committed, snapshot, totalDays, employeeID, leaveTypeID, year) ==
    AddUsedDays(snapshot, totalDays, employeeID, leaveTypeID, year)

\* UPDATE ... SET used_days = used_days + $1 inside a transaction: the sum is
\* taken over the row as committed when the statement gets the row lock, not
\* over the row as it was when the transaction began
TxAddUsedDays(committed, snapshot, totalDays, employeeID, leaveTypeID, year) ==
    AddUsedDays(committed, totalDays, employeeID, leaveTypeID, year)

\* ApproveLeaveRequest: UPDATE employee_leave_balances in the transaction; the
\* statement waits while another transaction holds the row
ApproveUpdateBalance(p) ==
    /\ inflight[p].op = "ApproveLeaveRequest" /\ inflight[p].pc = "update_balance"
    /\ LET loc == inflight[p]
           key == <<loc.employeeID, loc.leaveTypeID, CurrentYear>>
           written == TxAddUsedDays(balances, loc.snapshot, loc.totalDays,
                                    loc.employeeID, loc.leaveTypeID, CurrentYear)
       IN  /\ ~ BalanceRowLocked(p, key)
           /\ IF ~ BalancesOK(written)
              THEN Respond(p, "ApproveLeaveRequest", "BalanceUpdateFailed", loc.id,
                           StatusOf(requests, loc.id))
              ELSE Continue(p, [loc EXCEPT !.pc = "commit",
                                          !.tx = IF key \in DOMAIN written
                                                 THEN <<key, written[key]>> ELSE << >>])
    /\ UNCHANGED <<employees, leave_types, balances, requests, clock, users, refresh_tokens>>

\* ApproveLeaveRequest: tx.Commit installs both UPDATEs and frees the row locks
ApproveCommit(p) ==
    /\ inflight[p].op = "ApproveLeaveRequest" /\ inflight[p].pc = "commit"
    /\ LET loc == inflight[p]
       IN  /\ requests' = SetApproved(requests, loc.id, loc.approvedBy, Timestamp)
           /\ balances' = IF loc.tx = << >> THEN balances
                          ELSE [balances EXCEPT ![loc.tx[1]] = loc.tx[2]]
           /\ Respond(p, "ApproveLeaveRequest", "ok", loc.id, StatusOf(requests, loc.id))
    /\ UNCHANGED <<employees, leave_types, clock, users, refresh_tokens>>

\* UpdateLeaveBalances while transactions are open: its UPDATE waits for the
\* row lock, so it changes no row that an open transaction has written
UpdateLeaveBalancesUnlocked ==
    /\ writes + Cardinality(Busy) < MaxWrites
    /\ UpdateLeaveBalances
    /\ \A p \in Procs : inflight[p].tx # << >> =>
          balances'[inflight[p].tx[1]] = balances[inflight[p].tx[1]]

\* the tables after one CreateEmployee call on the empty schema
InitConcurrent ==
    LET r == CreateEmployeeHandler([employees |-> << >>, balances |-> << >>, requests |-> << >>],
                                   SeedLeaveTypes, BaseDay + 9, BaseYear,
                                   "Ann", "a@lms.io", 1, BaseDay, "none")
    IN  /\ employees = r.employees
        /\ balances = r.balances
        /\ leave_types = SeedLeaveTypes
        /\ requests = << >>
        /\ clock = 0
        /\ writes = 0
        /\ last = [op |-> "CreateEmployee", result |-> r.result, id |-> 1, pre_status |-> "none"]
        /\ inflight = [p \in Procs |-> Idle]
        /\ users = << >>
        /\ refresh_tokens = << >>

NextConcurrent ==
    \/ \E p \in Procs : ApplyLeaveSelectJoining(p)
    \/ \E p \in Procs : ApplyLeaveSelectBalance(p)
    \/ \E p \in Procs : ApplyLeaveCheckOverlap(p)
    \/ \E p \in Procs : ApplyLeaveInsert(p)
    \/ \E p \in Procs : ApproveSelect(p)
    \/ \E p \in Procs : ApproveUpdateRequest(p)
    \/ \E p \in Procs : ApproveUpdateBalance(p)
    \/ \E p \in Procs : ApproveCommit(p)
    \/ UpdateLeaveBalancesUnlocked

SpecConcurrent == InitConcurrent /\ [][NextConcurrent]_vars

\* the life of the requests of one employee within one year: handlers one at a
\* time, no UpdateLeaveBalances, no new employee, no new year
NextLifecycle ==
    \/ ApplyLeave
    \/ ApproveLeaveRequest
    \/ RejectLeaveRequest
    \/ CancelLeaveRequest

SpecLifecycle == InitConcurrent /\ [][NextLifecycle]_vars

\* the tables after CreateEmployee and one ApplyLeave for Thu 2024-02-01: one
\* employee, one pending request of one day
InitApproveRace ==
    LET e == CreateEmployeeHandler([employees |-> << >>, balances |-> << >>, requests |-> << >>],
                                   SeedLeaveTypes, BaseDay + 9, BaseYear,
                                   "Ann", "a@lms.io", 1, BaseDay, "none")
        a == ApplyLeaveHandler([employees |-> e.employees, balances |-> e.balances,
                                requests |-> << >>],
                               BaseYear, 1, 1, BaseDay, BaseDay, "vacation")
    IN  /\ employees = e.employees
        /\ balances = e.balances
        /\ leave_types = SeedLeaveTypes
        /\ requests = a.requests
        /\ clock = 0
        /\ writes = 0
        /\ last = [op |-> "ApplyLeave", result |-> a.result, id |-> 1, pre_status |-> "none"]
        /\ inflight = [p \in Procs |-> Idle]
        /\ users = << >>
        /\ refresh_tokens = << >>

\* approvals only, statement by statement
NextApproveRace ==
    \/ \E p \in Procs : ApproveSelect(p)
    \/ \E p \in Procs : ApproveUpdateRequest(p)
    \/ \E p \in Procs : ApproveUpdateBalance(p)
    \/ \E p \in Procs : ApproveCommit(p)

SpecApproveRace == InitApproveRace /\ [][NextApproveRace]_vars

\* ---------------------------------------------------------- authorization
\* the role constants of models
Roles == {"employee", "manager", "hr", "admin"}

\* the action names HasPermission knows, system_config, and a name it does not
\* know
PermissionActions ==
    {"view_own_requests", "create_own_requests", "cancel_own_requests",
     "view_team_requests", "approve_team_requests", "reject_team_requests",
     "view_team_employees", "view_own_balances", "system_config", "manage_leave_types"}

\* HasPermission with cancel_own_requests missing from the manager's list
HasPermissionManagerNoCancel(role, action) ==
    CASE role = "admin" -> TRUE
      [] role = "hr" -> action # "system_config"
      [] role = "manager" ->
            action \in {"view_own_requests", "create_own_requests",
                        "view_team_requests", "approve_team_requests", "reject_team_requests",
                        "view_team_employees", "view_own_balances"}
      [] role = "employee" ->
            action \in {"view_own_requests", "create_own_requests", "cancel_own_requests",
                        "view_own_balances"}
      [] OTHER -> FALSE

\* models.HasPermission(role, action)
HasPermission(role, action) ==
    CASE role = "admin" -> TRUE
      [] role = "hr" -> action # "system_config"
      [] role = "manager" ->
            action \in {"view_own_requests", "create_own_requests", "cancel_own_requests",
                        "view_team_requests", "approve_team_requests", "reject_team_requests",
                        "view_team_employees", "view_own_balances"}
      [] role = "employee" ->
            action \in {"view_own_requests", "create_own_requests", "cancel_own_requests",
                        "view_own_balances"}
      [] OTHER -> FALSE

\* RequirePermission(permission): the request goes on to the handler
RequirePermission(role, permission) == HasPermission(role, permission)

\* the claims of the tokens that callers present: user 11 is employee 1, user
\* 12 is employee 2 and a manager, 13 is hr, 14 is admin, 15 carries a role
\* that is none of the four
Callers ==
    { [user_id |-> 11, role |-> "employee", employee_id |-> 1],
      [user_id |-> 12, role |-> "manager", employee_id |-> 2],
      [user_id |-> 13, role |-> "hr", employee_id |-> GhostId],
      [user_id |-> 14, role |-> "admin", employee_id |-> GhostId],
      [user_id |-> 15, role |-> "guest", employee_id |-> 1] }

\* employees.manager_id, a column no handler writes: every way it may be filled
ManagerAssignments == [EmployeeIds -> {NULL, 12, 14}]

\* PUT /leave-requests/:id/approve behind RequirePermission("approve_team_requests")
ApproveRoute(db, year, caller, id, approvedBy, fault) ==
    IF ~ RequirePermission(caller.role, "approve_team_requests")
    THEN [result |-> "Forbidden", requests |-> db.requests, balances |-> db.balances]
    ELSE ApproveLeaveRequestHandler(db, year, id, approvedBy, fault)

\* PUT /leave-requests/:id/reject behind RequirePermission("reject_team_requests")
RejectRoute(db, caller, id, rejectionReason) ==
    IF ~ RequirePermission(caller.role, "reject_team_requests")
    THEN [result |-> "Forbidden", requests |-> db.requests, balances |-> db.balances]
    ELSE RejectLeaveRequestHandler(db, id, rejectionReason)

ApproveLeaveRequestAs ==
    /\ writes < MaxWrites
    /\ \E caller \in Callers, id \in RequestIdInputs, approvedBy \in {NULL, 2} :
        LET r == ApproveRoute(DB, CurrentYear, caller, id, approvedBy, "none")
        IN  /\ requests' = r.requests
            /\ balances' = r.balances
            /\ last' = [op |-> "ApproveLeaveRequest", result |-> r.result, id |-> id,
                        pre_status |-> StatusOf(requests, id), caller |-> caller]
            /\ writes' = Written(r.result)
            /\ UNCHANGED <<employees, leave_types, clock, inflight, users, refresh_tokens>>

RejectLeaveRequestAs ==
    /\ writes < MaxWrites
    /\ \E caller \in Callers, id \in RequestIdInputs, rejectionReason \in {"", "busy"} :
        LET r == RejectRoute(DB, caller, id, rejectionReason)
        IN  /\ requests' = r.requests
            /\ balances' = r.balances
            /\ last' = [op |-> "RejectLeaveRequest", result |-> r.result, id |-> id,
                        pre_status |-> StatusOf(requests, id), caller |-> caller]
            /\ writes' = Written(r.result)
            /\ UNCHANGED <<employees, leave_types, clock, inflight, users, refresh_tokens>>

\* ListLeaveRequests with the manager's WHERE e.manager_id = $1 left out
ListVisibleManagerAll(reqs, managers, caller) ==
    CASE caller.role \in {"admin", "hr"} -> 1 .. Len(reqs)
      [] caller.role = "manager" -> 1 .. Len(reqs)
      [] caller.role = "employee" ->
            {i \in 1 .. Len(reqs) : reqs[i].employee_id = caller.employee_id}
      [] OTHER -> {}

\* the switch on the role in ListLeaveRequests: the rows its WHERE clause keeps
\* (every request joins its employee and its leave type)
ListVisible(reqs, managers, caller) ==
    CASE caller.role \in {"admin", "hr"} -> 1 .. Len(reqs)
      [] caller.role = "manager" ->
            {i \in 1 .. Len(reqs) : managers[reqs[i].employee_id] = caller.user_id}
      [] caller.role = "employee" ->
            {i \in 1 .. Len(reqs) : reqs[i].employee_id = caller.employee_id}
      [] OTHER -> {}

\* ORDER BY lr.created_at DESC: the ids of S, latest first
NewestFirst(S) ==
    [k \in 1 .. Cardinality(S) |->
        CHOOSE x \in S : Cardinality({y \in S : y > x}) = k - 1]

\* GET /leave-requests (ListLeaveRequests): status and employeeIDFilter are the
\* query parameters ("" and NULL when not given); a role outside the switch
\* leaves the query without its SELECT and the database refuses it
ListLeaveRequestsHandler(reqs, managers, caller, status, employeeIDFilter) ==
    IF caller.role \notin Roles
    THEN [result |-> "QueryFailed", rows |-> << >>]
    ELSE [result |-> "ok",
          rows |-> NewestFirst(
              {i \in ListVisible(reqs, managers, caller) :
                  /\ status # "" => reqs[i].status = status
                  /\ (caller.role \in {"admin", "hr"} /\ employeeIDFilter # NULL)
                        => reqs[i].employee_id = employeeIDFilter})]

\* GET /leave-requests behind RequirePermission("view_own_requests")
ListRoute(reqs, managers, caller, status, employeeIDFilter) ==
    IF ~ RequirePermission(caller.role, "view_own_requests")
    THEN [result |-> "Forbidden", rows |-> << >>]
    ELSE ListLeaveRequestsHandler(reqs, managers, caller, status, employeeIDFilter)

\* employee 1 reports to the manager who is user 12, employee 2 to nobody
SeedManagers == [e \in EmployeeIds |-> IF e = 1 THEN 12 ELSE NULL]

ListLeaveRequestsAs ==
    /\ \E caller \in Callers, status \in {"", "pending"}, employeeIDFilter \in {NULL, 2} :
        LET r == ListRoute(requests, SeedManagers, caller, status, employeeIDFilter)
        IN  last' = [op |-> "ListLeaveRequests", result |-> r.result, id |-> NULL,
                     pre_status |-> "none", caller |-> caller, status |-> status,
                     employee_id |-> employeeIDFilter, rows |-> r.rows]
    /\ UNCHANGED <<employees, leave_types, balances, requests, clock, writes, inflight, users, refresh_tokens>>

\* the tables after two CreateEmployee calls on the empty schema
InitAccess ==
    LET empty == [employees |-> << >>, balances |-> << >>, requests |-> << >>]
        a == CreateEmployeeHandler(empty, SeedLeaveTypes, BaseDay + 9, BaseYear,
                                   "Ann", "a@lms.io", 1, BaseDay, "none")
        b == CreateEmployeeHandler([empty EXCEPT !.employees = a.employees,
                                                 !.balances = a.balances],
                                   SeedLeaveTypes, BaseDay + 9, BaseYear,
                                   "Bob", "b@lms.io", 1, BaseDay, "none")
    IN  /\ employees = b.employees
        /\ balances = b.balances
        /\ leave_types = SeedLeaveTypes
        /\ requests = << >>
        /\ clock = 0
        /\ writes = 0
        /\ last = [op |-> "CreateEmployee", result |-> b.result, id |-> 2, pre_status |-> "none"]
        /\ inflight = [p \in Procs |-> Idle]
        /\ users = << >>
        /\ refresh_tokens = << >>

\* the routes of /leave-requests as authenticated callers reach them
NextAccess ==
    \/ ApplyLeave
    \/ ApproveLeaveRequestAs
    \/ RejectLeaveRequestAs
    \/ ListLeaveRequestsAs

SpecAccess == InitAccess /\ [][NextAccess]_vars

\* ------------------------------------------------------------ refresh tokens
\* rows of users after the Register calls of the accounts
UserIds == 1 .. NumUsers
\* an id that is never the id of a users row
GhostUserId == NumUsers + 1
Passwords == {"pw1", "pw2"}
\* the values a client may send as refresh_token: the token of a row, or none
TokenInputs == 1 .. (MaxTokens + 1)

\* bcrypt.GenerateFromPassword and bcrypt.CompareHashAndPassword
GenerateFromPassword(password) == <<"bcrypt", password>>
CompareHashAndPassword(hash, password) == hash = <<"bcrypt", password>>

\* INSERT INTO users (..., password_hash, ..., is_active, ...) VALUES (..., true, ...)
RegisteredUser(password) ==
    [password_hash |-> GenerateFromPassword(password), is_active |-> TRUE]

\* generateRefreshToken: INSERT INTO refresh_tokens (token, user_id, expires_at,
\* is_revoked, created_at); the token of a row is its position, and expired
\* says whether time.Now() is after its expires_at
generateRefreshToken(tokens, userID) ==
    Append(tokens, [user_id |-> userID, expired |-> FALSE, is_revoked |-> FALSE])

\* SELECT user_id, expires_at FROM refresh_tokens WHERE token = $1 AND is_revoked = false
RefreshSelect(tokens, token) ==
    {t \in 1 .. Len(tokens) : t = token /\ ~ tokens[t].is_revoked}

\* RefreshToken up to the generation of the new tokens: the answer it gives
\* before it writes anything, "ok" when it goes on
RefreshTokenCheck(tokens, usrs, token) ==
    IF RefreshSelect(tokens, token) = {} THEN "Unauthorized"
    ELSE IF tokens[token].expired THEN "Unauthorized"
    ELSE IF tokens[token].user_id \notin DOMAIN usrs THEN "Unauthorized"
    ELSE IF ~ usrs[tokens[token].user_id].is_active THEN "Unauthorized"
    ELSE "ok"

\* UPDATE refresh_tokens SET is_revoked = true WHERE token = $1
RevokeToken(tokens, token) ==
    [t \in 1 .. Len(tokens) |->
        IF t = token THEN [tokens[t] EXCEPT !.is_revoked = TRUE] ELSE tokens[t]]

\* UPDATE refresh_tokens SET is_revoked = true WHERE user_id = $1
RevokeUserTokens(tokens, userID) ==
    [t \in 1 .. Len(tokens) |->
        IF tokens[t].user_id = userID
        THEN [tokens[t] EXCEPT !.is_revoked = TRUE] ELSE tokens[t]]

\* UPDATE refresh_tokens SET is_revoked = true WHERE token = $1 AND user_id = $2
RevokeOwnToken(tokens, token, userID) ==
    [t \in 1 .. Len(tokens) |->
        IF t = token /\ tokens[t].user_id = userID
        THEN [tokens[t] EXCEPT !.is_revoked = TRUE] ELSE tokens[t]]

\* the locals of a handler of the accounts between two of its statements
AuthLocals(op, pc, token, userID, password) ==
    [op |-> op, pc |-> pc, token |-> token, userID |-> userID, password |-> password]

\* the tokens the goroutines in flight are still going to insert
TokensToCome ==
    Cardinality({p \in Procs : inflight[p] # Idle /\ inflight[p].op = "RefreshToken"
                                                 /\ inflight[p].pc = "generate"})

\* the answer of a handler of the accounts, with the token and the user of a
\* 200; redeemed counts, for every token, the RefreshToken calls that were
\* answered 200 for it
Answer(op, res, token, userID, redeemed) ==
    [op |-> op, result |-> res, id |-> token, pre_status |-> "",
     user |-> userID, redeemed |-> redeemed]

\* the handler of p answers and its goroutine ends
RespondAuth(p, op, res, token, userID, redeemed) ==
    /\ inflight' = [inflight EXCEPT ![p] = Idle]
    /\ last' = Answer(op, res, token, userID, redeemed)

\* POST /auth/login
Login ==
    \E userID \in UserIds \cup {GhostUserId}, password \in Passwords :
        /\ Len(refresh_tokens) + TokensToCome < MaxTokens
        /\ IF userID \notin DOMAIN users
           THEN /\ last' = Answer("Login", "Unauthorized", NULL, NULL, last.redeemed)
                /\ UNCHANGED refresh_tokens
           ELSE IF ~ users[userID].is_active
           THEN /\ last' = Answer("Login", "Unauthorized", NULL, NULL, last.redeemed)
                /\ UNCHANGED refresh_tokens
           ELSE IF ~ CompareHashAndPassword(users[userID].password_hash, password)
           THEN /\ last' = Answer("Login", "Unauthorized", NULL, NULL, last.redeemed)
                /\ UNCHANGED refresh_tokens
           ELSE /\ refresh_tokens' = generateRefreshToken(refresh_tokens, userID)
                /\ last' = Answer("Login", "ok", Len(refresh_tokens) + 1, userID,
                                  last.redeemed)
        /\ UNCHANGED <<employees, leave_types, balances, requests, clock, writes,
                       inflight, users>>

\* POST /auth/refresh up to SELECT ... FROM users WHERE id = $1
RefreshTokenSelect(p) ==
    \E token \in TokenInputs :
        /\ inflight[p] = Idle
        /\ IF RefreshTokenCheck(refresh_tokens, users, token) # "ok"
           THEN RespondAuth(p, "RefreshToken", "Unauthorized", NULL, NULL, last.redeemed)
           ELSE /\ Len(refresh_tokens) + TokensToCome < MaxTokens
                /\ inflight' = [inflight EXCEPT ![p] =
                       AuthLocals("RefreshToken", "generate", token,
                                  refresh_tokens[token].user_id, "")]
                /\ UNCHANGED last
        /\ UNCHANGED <<employees, leave_types, balances, requests, clock, writes,
                       users, refresh_tokens>>

\* RefreshToken: generateJWTToken and generateRefreshToken(user.ID)
RefreshTokenGenerate(p) ==
    \E failed \in BOOLEAN :
        /\ inflight[p] # Idle
        /\ inflight[p].op = "RefreshToken"
        /\ inflight[p].pc = "generate"
        /\ IF failed
           THEN /\ RespondAuth(p, "RefreshToken", "RefreshTokenFailed", NULL, NULL,
                               last.redeemed)
                /\ UNCHANGED refresh_tokens
           ELSE /\ refresh_tokens' = generateRefreshToken(refresh_tokens, inflight[p].userID)
                /\ inflight' = [inflight EXCEPT ![p] = [@ EXCEPT !.pc = "revoke"]]
                /\ UNCHANGED last
        /\ UNCHANGED <<employees, leave_types, balances, requests, clock, writes, users>>

\* RefreshToken: UPDATE refresh_tokens SET is_revoked = true WHERE token = $1,
\* whose error is printed and nothing more, then 200
RefreshTokenRevoke(p) ==
    \E failed \in BOOLEAN :
        /\ inflight[p] # Idle
        /\ inflight[p].op = "RefreshToken"
        /\ inflight[p].pc = "revoke"
        /\ refresh_tokens' = IF failed THEN refresh_tokens
                             ELSE RevokeToken(refresh_tokens, inflight[p].token)
        /\ RespondAuth(p, "RefreshToken", "ok", inflight[p].token, inflight[p].userID,
                       [last.redeemed EXCEPT ![inflight[p].token] = @ + 1])
        /\ UNCHANGED <<employees, leave_types, balances, requests, clock, writes, users>>

\* POST /auth/change-password up to bcrypt.CompareHashAndPassword
ChangePasswordSelect(p) ==
    \E userID \in UserIds, current \in Passwords, new \in Passwords :
        /\ inflight[p] = Idle
        /\ IF ~ CompareHashAndPassword(users[userID].password_hash, current)
           THEN RespondAuth(p, "ChangePassword", "BadRequest", NULL, NULL, last.redeemed)
           ELSE /\ inflight' = [inflight EXCEPT ![p] =
                       AuthLocals("ChangePassword", "update", NULL, userID, new)]
                /\ UNCHANGED last
        /\ UNCHANGED <<employees, leave_types, balances, requests, clock, writes,
                       users, refresh_tokens>>

\* ChangePassword: UPDATE users SET password_hash = $1, updated_at = NOW() WHERE id = $2
ChangePasswordUpdate(p) ==
    \E failed \in BOOLEAN :
        /\ inflight[p] # Idle
        /\ inflight[p].op = "ChangePassword"
        /\ inflight[p].pc = "update"
        /\ IF failed
           THEN /\ RespondAuth(p, "ChangePassword", "PasswordUpdateFailed", NULL, NULL,
                               last.redeemed)
                /\ UNCHANGED users
           ELSE /\ users' = [users EXCEPT ![inflight[p].userID] =
                       [@ EXCEPT !.password_hash =
                            GenerateFromPassword(inflight[p].password)]]
                /\ inflight' = [inflight EXCEPT ![p] = [@ EXCEPT !.pc = "revoke"]]
                /\ UNCHANGED last
        /\ UNCHANGED <<employees, leave_types, balances, requests, clock, writes,
                       refresh_tokens>>

\* ChangePassword: UPDATE refresh_tokens SET is_revoked = true WHERE user_id = $1,
\* whose error is printed and nothing more, then 200
ChangePasswordRevoke(p) ==
    \E failed \in BOOLEAN :
        /\ inflight[p] # Idle
        /\ inflight[p].op = "ChangePassword"
        /\ inflight[p].pc = "revoke"
        /\ refresh_tokens' = IF failed THEN refresh_tokens
                             ELSE RevokeUserTokens(refresh_tokens, inflight[p].userID)
        /\ RespondAuth(p, "ChangePassword", "ok", NULL, inflight[p].userID, last.redeemed)
        /\ UNCHANGED <<employees, leave_types, balances, requests, clock, writes, users>>

\* POST /auth/logout
Logout ==
    \E userID \in UserIds, token \in TokenInputs, failed \in BOOLEAN :
        /\ refresh_tokens' = IF failed THEN refresh_tokens
                             ELSE RevokeOwnToken(refresh_tokens, token, userID)
        /\ last' = IF failed THEN Answer("Logout", "LogoutFailed", NULL, NULL, last.redeemed)
                    ELSE Answer("Logout", "ok", NULL, userID, last.redeemed)
        /\ UNCHANGED <<employees, leave_types, balances, requests, clock, writes,
                       inflight, users>>

\* seven days go by after the oldest token that has not expired was generated
ExpireToken ==
    \E t \in 1 .. Len(refresh_tokens) :
        /\ ~ refresh_tokens[t].expired
        /\ \A o \in 1 .. (t - 1) : refresh_tokens[o].expired
        /\ refresh_tokens' = [refresh_tokens EXCEPT ![t] = [@ EXCEPT !.expired = TRUE]]
        /\ UNCHANGED <<employees, leave_types, balances, requests, clock, writes, last,
                       inflight, users>>

\* the accounts after the Register calls, before any Login
InitAuth ==
    /\ employees = << >>
    /\ leave_types = SeedLeaveTypes
    /\ balances = << >>
    /\ requests = << >>
    /\ clock = 0
    /\ writes = 0
    /\ last = Answer("none", "none", NULL, NULL, [t \in 1 .. MaxTokens |-> 0])
    /\ inflight = [p \in Procs |-> Idle]
    /\ users = [u \in UserIds |-> RegisteredUser("pw1")]
    /\ refresh_tokens = << >>

\* the tokens on their own: issued, redeemed, revoked, expired
NextRefresh ==
    \/ Login
    \/ Logout
    \/ ExpireToken
    \/ \E p \in Procs :
        \/ RefreshTokenSelect(p)
        \/ RefreshTokenGenerate(p)
        \/ RefreshTokenRevoke(p)

SpecRefresh == InitAuth /\ [][NextRefresh]_vars

\* the changes of password among the logins and the refreshes
NextPassword ==
    \/ Login
    \/ \E p \in Procs :
        \/ RefreshTokenSelect(p)
        \/ RefreshTokenGenerate(p)
        \/ RefreshTokenRevoke(p)
        \/ ChangePasswordSelect(p)
        \/ ChangePasswordUpdate(p)
        \/ ChangePasswordRevoke(p)

SpecPassword == InitAuth /\ [][NextPassword]_vars

\* ------------------------------------------------------------------ claims
\* the balance row an approval of request id addresses
BalanceKeyOf(id) == <<requests[id].employee_id, requests[id].leave_type_id, CurrentYear>>

\* a well-formed approve call: an approver that is an employee, no fault injected
ValidApprovers == {a \in ApprovedByInputs : a \in DOMAIN employees}

\* the outcome of approving request id is "every table as it was"
ApproveUnchanged(r) == r.requests = requests /\ r.balances = balances

\* the outcome r approved request id for approvedBy and touched no other request
ApprovedIn(r, id, approvedBy) ==
    /\ r.requests[id].status = "approved"
    /\ r.requests[id].approved_by = approvedBy
    /\ r.requests[id].approved_at # NULL
    /\ Len(r.requests) = Len(requests)
    /\ \A j \in 1 .. Len(requests) : j # id => r.requests[j] = requests[j]

\* the outcome r added the request's total_days to its balance row, where there
\* is one, and left every other row as it was
IncrementedIn(r, id) ==
    /\ DOMAIN r.balances = DOMAIN balances
    /\ \A k \in DOMAIN balances :
          r.balances[k] =
              IF k = BalanceKeyOf(id)
              THEN [balances[k] EXCEPT !.used_days = @ + requests[id].total_days]
              ELSE balances[k]

\* C1: approving a request that is not pending is rejected with NotPending and
\* leaves the request's status and every used_days as they were.
C1_ApproveNonPendingRejected ==
    \A id \in 1 .. Len(requests), approvedBy \in ValidApprovers :
        requests[id].status # "pending" =>
            LET r == ApproveLeaveRequestHandler(DB, CurrentYear, id, approvedBy, "none")
            IN  r.result = "NotPending" /\ ApproveUnchanged(r)

WouldOverdraw(id) ==
    /\ BalanceKeyOf(id) \in DOMAIN balances
    /\ requests[id].total_days > available_days(balances[BalanceKeyOf(id)])

C3_ApprovalAtomic ==
    \A id \in 1 .. Len(requests), approvedBy \in ApprovedByInputs, fault \in FaultPoints :
        LET r == ApproveLeaveRequestHandler(DB, CurrentYear, id, approvedBy, fault)
        IN  \/ ApproveUnchanged(r)
            \/ /\ r.requests[id].status = "approved"
               /\ BalanceKeyOf(id) \in DOMAIN balances
               /\ r.balances[BalanceKeyOf(id)].used_days =
                      balances[BalanceKeyOf(id)].used_days + requests[id].total_days

\* the ApplyLeave calls that get as far as the balance test: a reason, an
\* ordered range, an employee who had joined by the start date, a balance row
ReachesBalanceTest(employeeID, leaveTypeID, start, end, reason) ==
    /\ reason # ""
    /\ start <= end
    /\ employeeID \in DOMAIN employees
    /\ employees[employeeID].joining_date <= start
    /\ <<employeeID, leaveTypeID, CurrentYear>> \in DOMAIN balances

\* C4: an ApplyLeave whose total_days (as the handler counts them, and so also
\* when counted as working days) exceeds available_days of the (employee, leave
\* type, current year) row inserts no row, and fails with InsufficientBalance
\* when it passes the tests that come before the balance test; a row that is
\* inserted never carries more total_days than were available.
C4_InsufficientBalanceRejected ==
    \A employeeID \in EmployeeIds, leaveTypeID \in LeaveTypeIds,
       start \in Dates, end \in Dates, reason \in {"", "vacation"} :
        LET r == ApplyLeaveHandler(DB, CurrentYear, employeeID, leaveTypeID, start, end, reason)
            key == <<employeeID, leaveTypeID, CurrentYear>>
            avail == available_days(balances[key])
        IN  key \in DOMAIN balances =>
                /\ ((end - start) + 1 > avail \/ calculate_working_days(start, end) > avail)
                      => /\ r.requests = requests
                         /\ r.result # "Created"
                         /\ ReachesBalanceTest(employeeID, leaveTypeID, start, end, reason)
                               => r.result = "InsufficientBalance"
                /\ r.result = "Created" => r.requests[Len(r.requests)].total_days <= avail

\* an ApplyLeave was turned down for its balance
C4_Witness ==
    /\ last.op = "ApplyLeave" /\ last.result = "InsufficientBalance"
    /\ \E k \in DOMAIN balances : k[3] = CurrentYear /\ available_days(balances[k]) < 5

\* the inclusive ranges [s1, e1] and [s2, e2] share a day
Intersects(s1, e1, s2, e2) == (s1 .. e1) \cap (s2 .. e2) # {}

\* employee e has a pending or approved request that shares a day with [start, end]
HasActiveIntersecting(e, start, end) ==
    \E i \in 1 .. Len(requests) :
        /\ requests[i].employee_id = e
        /\ requests[i].status \in {"pending", "approved"}
        /\ Intersects(requests[i].start_date, requests[i].end_date, start, end)

\* C5: with handlers running one at a time, an ApplyLeave for an employee who
\* has a pending or approved request sharing a day with the new range inserts
\* no row, and fails with OverlappingRequest when it passes the earlier tests.
C5_OverlapRejected ==
    \A employeeID \in EmployeeIds, leaveTypeID \in LeaveTypeIds,
       start \in Dates, end \in Dates, reason \in {"", "vacation"} :
        LET r == ApplyLeaveHandler(DB, CurrentYear, employeeID, leaveTypeID, start, end, reason)
        IN  HasActiveIntersecting(employeeID, start, end) =>
                /\ r.requests = requests
                /\ r.result # "Created"
                /\ (/\ ReachesBalanceTest(employeeID, leaveTypeID, start, end, reason)
                    /\ (end - start) + 1 <=
                          available_days(balances[<<employeeID, leaveTypeID, CurrentYear>>]))
                      => r.result = "OverlappingRequest"

\* an ApplyLeave was turned down for overlapping a request that is still there
C5_Witness ==
    /\ last.op = "ApplyLeave" /\ last.result = "OverlappingRequest"
    /\ \E i \in 1 .. Len(requests) : requests[i].status \in {"pending", "approved"}

\* C6: the total_days stored with every admitted request is the number of
\* Monday-to-Friday days of [start_date, end_date].
C6_TotalDaysAreWorkingDays ==
    \A i \in 1 .. Len(requests) :
        requests[i].total_days =
            calculate_working_days(requests[i].start_date, requests[i].end_date)

\* C7: RejectLeaveRequest and CancelLeaveRequest leave every balance row as it
\* was, whatever the status of the request they are applied to.
C7_RejectCancelKeepBalances ==
    [][last'.op \in {"RejectLeaveRequest", "CancelLeaveRequest"} => balances' = balances]_vars

\* an approved request, its days on the balance row, was cancelled or rejected
C7_Witness ==
    /\ last.op \in {"RejectLeaveRequest", "CancelLeaveRequest"}
    /\ last.result = "ok"
    /\ last.pre_status = "approved"
    /\ \E k \in DOMAIN balances : balances[k].used_days > 0

\* C8: CancelLeaveRequest sets status to cancelled when the request is pending
\* and leaves the status of an approved, rejected or cancelled request alone.
C8_CancelOnlyFromPending ==
    last.op = "CancelLeaveRequest" /\ last.pre_status # "none" =>
        requests[last.id].status =
            IF last.pre_status = "pending" THEN "cancelled" ELSE last.pre_status

\* C9: every balance row has 0 <= used_days <= allocated_days + carried_forward_days.
C9_UsedDaysWithinLimit ==
    \A k \in DOMAIN balances :
        /\ 0 <= balances[k].used_days
        /\ balances[k].used_days <= balances[k].allocated_days + balances[k].carried_forward_days

\* an approval was refused at the limit: the request is still as it was and
\* its increment would not fit the row
C9_Witness ==
    /\ last.op = "ApproveLeaveRequest" /\ last.result = "BalanceUpdateFailed"
    /\ last.pre_status # "none"
    /\ WouldOverdraw(last.id)

\* C10: a request carries approved_by and approved_at exactly when its status
\* is approved.
C10_ApprovedByIffApproved ==
    \A i \in 1 .. Len(requests) :
        (requests[i].approved_by # NULL /\ requests[i].approved_at # NULL)
            <=> requests[i].status = "approved"

\* C11: an ApplyLeave that answers Created appends exactly one request, with
\* status pending, to the requests that were there, and no ApplyLeave changes
\* a balance row; an ApplyLeave that fails inserts nothing.
C11_ApplyInsertsOnePending ==
    [][last'.op = "ApplyLeave" =>
          /\ balances' = balances
          /\ IF last'.result = "Created"
             THEN /\ Len(requests') = Len(requests) + 1
                  /\ SubSeq(requests', 1, Len(requests)) = requests
                  /\ requests'[Len(requests')].status = "pending"
                  /\ requests'[Len(requests')].approved_by = NULL
             ELSE requests' = requests]_vars

\* an ApplyLeave was admitted while a balance row already carried used days
C11_Witness ==
    /\ last.op = "ApplyLeave" /\ last.result = "Created"
    /\ requests[last.id].status = "pending"
    /\ \E k \in DOMAIN balances : balances[k].used_days > 0

\* C15: an ApplyLeave with start_date later than end_date inserts no row, and
\* fails with InvalidDateRange when its body is complete.
C15_InvalidDateRangeRejected ==
    \A employeeID \in EmployeeIds, leaveTypeID \in LeaveTypeIds,
       start \in Dates, end \in Dates, reason \in {"", "vacation"} :
        LET r == ApplyLeaveHandler(DB, CurrentYear, employeeID, leaveTypeID, start, end, reason)
        IN  /\ start > end =>
                /\ r.requests = requests
                /\ reason # "" => r.result = "InvalidDateRange"
            /\ start <= end => r.result # "InvalidDateRange"

\* an ApplyLeave of an employee with a balance was turned down for its date order
C15_Witness ==
    /\ last.op = "ApplyLeave" /\ last.result = "InvalidDateRange"
    /\ employees # << >>

\* C16: an ApplyLeave with start_date earlier than the employee's joining_date
\* inserts no row, and fails with BeforeJoining when it passes the tests that
\* come first; a start_date equal to the joining_date never fails with
\* BeforeJoining.
C16_BeforeJoiningRejected ==
    \A employeeID \in EmployeeIds, leaveTypeID \in LeaveTypeIds,
       start \in Dates, end \in Dates, reason \in {"", "vacation"} :
        LET r == ApplyLeaveHandler(DB, CurrentYear, employeeID, leaveTypeID, start, end, reason)
        IN  employeeID \in DOMAIN employees =>
                /\ start < employees[employeeID].joining_date =>
                      /\ r.requests = requests
                      /\ (reason # "" /\ start <= end) => r.result = "BeforeJoining"
                /\ start >= employees[employeeID].joining_date => r.result # "BeforeJoining"

\* an ApplyLeave was turned down as before joining, and a request that starts
\* on its employee's joining date is in the table
C16_Witness ==
    /\ last.op = "ApplyLeave" /\ last.result = "BeforeJoining"
    /\ \E i \in 1 .. Len(requests) :
          requests[i].start_date = employees[requests[i].employee_id].joining_date

\* C19: RejectLeaveRequest with a missing or empty rejection_reason fails with
\* a validation error and changes nothing; with a reason, on a pending
\* request, it sets status to rejected, stores the reason and changes nothing
\* else.
C19_RejectNeedsReason ==
    \A id \in 1 .. Len(requests), rejectionReason \in {"", "busy"} :
        LET r == RejectLeaveRequestHandler(DB, id, rejectionReason)
        IN  IF rejectionReason = ""
            THEN r.result = "BadRequest" /\ r.requests = requests /\ r.balances = balances
            ELSE requests[id].status = "pending" =>
                    /\ r.result = "ok"
                    /\ r.requests = [requests EXCEPT ![id] =
                           [@ EXCEPT !.status = "rejected", !.rejection_reason = rejectionReason]]

\* a pending request was rejected with a reason
C19_Witness ==
    /\ last.op = "RejectLeaveRequest" /\ last.result = "ok"
    /\ last.pre_status = "pending"
    /\ requests[last.id].status = "rejected"
    /\ requests[last.id].rejection_reason = "busy"

\* C18: an ApplyLeave for a range with no Monday-to-Friday day inserts no row,
\* and fails with ZeroDurationRequest when it passes the tests that come before
\* the day count.
C18_ZeroDurationRejected ==
    \A employeeID \in EmployeeIds, leaveTypeID \in LeaveTypeIds,
       start \in WeekendDates, end \in WeekendDates, reason \in {"", "vacation"} :
        LET r == ApplyLeaveHandler(DB, CurrentYear, employeeID, leaveTypeID, start, end, reason)
        IN  (start <= end /\ calculate_working_days(start, end) = 0) =>
                /\ r.requests = requests
                /\ ReachesBalanceTest(employeeID, leaveTypeID, start, end, reason)
                      => r.result = "ZeroDurationRequest"

\* C17: an ApplyLeave for an (employee, leave type) pair with no balance row
\* for the current year inserts no row, and fails with NoBalanceRecord when it
\* passes the tests that come first; a leave type activated after the employee
\* was created is such a pair.
C17_NoBalanceRecordRejected ==
    \A employeeID \in EmployeeIds, leaveTypeID \in LeaveTypeIds,
       start \in Dates, end \in Dates, reason \in {"", "vacation"} :
        LET r == ApplyLeaveHandler(DB, CurrentYear, employeeID, leaveTypeID, start, end, reason)
            key == <<employeeID, leaveTypeID, CurrentYear>>
        IN  /\ key \notin DOMAIN balances =>
                /\ r.requests = requests
                /\ (/\ reason # "" /\ start <= end
                    /\ employeeID \in DOMAIN employees
                    /\ employees[employeeID].joining_date <= start)
                      => r.result = "NoBalanceRecord"
            /\ key \in DOMAIN balances => r.result # "NoBalanceRecord"

\* in the year the only employee was created, an ApplyLeave was turned down for
\* a missing balance row while the second leave type, active now, has no row
\* for that employee
C17_Witness ==
    /\ last.op = "ApplyLeave" /\ last.result = "NoBalanceRecord"
    /\ clock = 0
    /\ Len(employees) = 1
    /\ leave_types[2].is_active
    /\ <<1, 1, CurrentYear>> \in DOMAIN balances
    /\ <<1, 2, CurrentYear>> \notin DOMAIN balances

\* C20: a CreateEmployee that answers Created leaves the new employee with one
\* balance row of the current year for each leave type active at that moment,
\* with allocated_days = max_days_per_year, used_days = 0 and
\* carried_forward_days = 0, and with no other balance row; no row of another
\* employee changes.
C20_CreateEmployeeAllocates ==
    \A name \in {"", "Ann"}, email \in {"", "a@lms.io", "b@lms.io"},
       departmentID \in {1, 6}, joinDate \in JoinDateInputs :
        LET r == CreateEmployeeHandler(DB, leave_types, Today, CurrentYear, name, email,
                                       departmentID, joinDate, "none")
            newID == Len(employees) + 1
            active == {lt \in DOMAIN leave_types : leave_types[lt].is_active}
        IN  r.result = "Created" =>
                /\ Len(r.employees) = newID
                /\ DOMAIN r.balances = DOMAIN balances \cup {<<newID, lt, CurrentYear>> : lt \in active}
                /\ \A k \in DOMAIN balances : r.balances[k] = balances[k]
                /\ \A k \in DOMAIN balances : k[1] # newID
                /\ \A lt \in active :
                      r.balances[<<newID, lt, CurrentYear>>] =
                          [allocated_days |-> leave_types[lt].max_days_per_year,
                           used_days |-> 0, carried_forward_days |-> 0]

\* an employee was created while one leave type was inactive and the other had
\* an edited max_days_per_year
C20_Witness ==
    /\ last.op = "CreateEmployee" /\ last.result = "Created"
    /\ \E lt \in DOMAIN leave_types : ~ leave_types[lt].is_active
    /\ \E lt \in DOMAIN leave_types :
          /\ leave_types[lt].is_active
          /\ leave_types[lt].max_days_per_year = 3
          /\ <<last.id, lt, CurrentYear>> \in DOMAIN balances
          /\ balances[<<last.id, lt, CurrentYear>>].allocated_days = 3

\* C12: whenever ApplyLeave inserts a request, also with other handlers running
\* between its statements, the row's total_days does not exceed available_days
\* of its (employee, leave type, current year) balance row at that moment.
C12_AdmissionAtomic ==
    [][Len(requests') > Len(requests) =>
          LET row == requests'[Len(requests')]
              key == <<row.employee_id, row.leave_type_id, CurrentYear>>
          IN  /\ key \in DOMAIN balances
              /\ row.total_days <= available_days(balances[key])]_vars

\* C13: nothing serializes two ApplyLeave calls: a call that has passed its
\* overlap check always inserts its row as pending, whatever rows other calls
\* have inserted since, so two calls for intersecting ranges that both pass the
\* check both insert.
C13_OverlapRaceAdmitsBoth ==
    [][\A p \in Procs :
          (inflight[p].op = "ApplyLeave" /\ inflight[p].pc = "insert" /\ inflight'[p] = Idle) =>
              /\ last'.result = "Created"
              /\ requests' = Append(requests,
                     NewRequest(inflight[p].employeeID, inflight[p].leaveTypeID,
                                inflight[p].start, inflight[p].end, inflight[p].totalDays))
              /\ requests'[Len(requests')].status = "pending"]_vars

\* two pending requests of one employee share a day
C13_Witness ==
    \E i \in 1 .. Len(requests), j \in 1 .. Len(requests) :
        /\ i < j
        /\ requests[i].employee_id = requests[j].employee_id
        /\ requests[i].status = "pending" /\ requests[j].status = "pending"
        /\ Intersects(requests[i].start_date, requests[i].end_date,
                      requests[j].start_date, requests[j].end_date)
        /\ last.op = "ApplyLeave" /\ last.result = "Created"

\* C14: every approval that commits, also with another approval of the same
\* balance row open at the same time, leaves used_days of that row larger by
\* exactly its request's total_days than the value committed just before, and
\* changes no other row: no increment is lost.
C14_NoLostUpdate ==
    [][\A p \in Procs :
          (inflight[p].op = "ApproveLeaveRequest" /\ inflight[p].pc = "commit"
             /\ inflight'[p] = Idle) =>
              LET loc == inflight[p]
                  key == <<loc.employeeID, loc.leaveTypeID, CurrentYear>>
              IN  /\ requests'[loc.id].status = "approved"
                  /\ DOMAIN balances' = DOMAIN balances
                  /\ \A k \in DOMAIN balances :
                        balances'[k] =
                            IF k = key
                            THEN [balances[k] EXCEPT !.used_days = @ + loc.totalDays]
                            ELSE balances[k]]_vars

\* an approval has just committed its increment while the approval of another,
\* still pending request of the same balance row, begun before that commit,
\* holds an increment that includes it
C14_Witness ==
    \E q \in Procs :
        LET loc == inflight[q]
            key == <<loc.employeeID, loc.leaveTypeID, CurrentYear>>
        IN  /\ loc.op = "ApproveLeaveRequest" /\ loc.pc = "commit"
            /\ last.op = "ApproveLeaveRequest" /\ last.result = "ok"
            /\ last.id # loc.id
            /\ requests[last.id].status = "approved"
            /\ requests[loc.id].status = "pending"
            /\ BalanceKeyOf(last.id) = key
            /\ balances[key].used_days = loc.snapshot[key].used_days + requests[last.id].total_days
            /\ loc.tx = <<key, [balances[key] EXCEPT !.used_days = @ + loc.totalDays]>>

\* C21: a CreateEmployee with a joining_date later than today, or with a
\* department_id of no department, is rejected (as JoiningInFuture or
\* DepartmentNotFound when name and email are given and the transaction
\* begins) and leaves employees and balances as they were.
C21_CreateEmployeeRejectsBadInput ==
    \A name \in {"", "Ann"}, email \in {"", "a@lms.io", "b@lms.io"},
       departmentID \in {1, 6}, joinDate \in JoinDateInputs, fault \in CreateFaultPoints :
        LET r == CreateEmployeeHandler(DB, leave_types, Today, CurrentYear, name, email,
                                       departmentID, joinDate, fault)
        IN  (joinDate > Today \/ departmentID \notin DepartmentIds) =>
                /\ r.result # "Created"
                /\ r.employees = employees /\ r.balances = balances
                /\ (name # "" /\ email # "" /\ joinDate > Today)
                      => r.result = "JoiningInFuture"
                /\ (name # "" /\ email # "" /\ joinDate <= Today /\ fault \notin {"begin"})
                      => r.result = "DepartmentNotFound"

\* a CreateEmployee was turned down for its department while an employee exists
C21_Witness ==
    /\ last.op = "CreateEmployee" /\ last.result = "DepartmentNotFound"
    /\ Len(employees) = 1
    /\ \A k \in DOMAIN balances : k[1] = 1

\* C22: a CreateEmployee that does not answer Created, whichever statement or
\* commit failed, leaves employees and balances as they were; one that answers
\* Created has inserted the employee and every balance row of its allocation.
C22_CreateEmployeeAllOrNothing ==
    \A name \in {"", "Ann"}, email \in {"", "a@lms.io", "b@lms.io"},
       departmentID \in {1, 6}, joinDate \in JoinDateInputs, fault \in CreateFaultPoints :
        LET r == CreateEmployeeHandler(DB, leave_types, Today, CurrentYear, name, email,
                                       departmentID, joinDate, fault)
            newID == Len(employees) + 1
        IN  IF r.result = "Created"
            THEN /\ fault = "none"
                 /\ Len(r.employees) = newID
                 /\ \A lt \in DOMAIN leave_types :
                       leave_types[lt].is_active => <<newID, lt, CurrentYear>> \in DOMAIN r.balances
            ELSE r.employees = employees /\ r.balances = balances

\* a CreateEmployee failed after its employee row was written in the
\* transaction, and neither that row nor a balance row of it is in the tables
C22_Witness ==
    /\ last.op = "CreateEmployee" /\ last.result \in {"AllocateFailed", "CommitFailed"}
    /\ Len(employees) = 1
    /\ \A k \in DOMAIN balances : k[1] = 1

\* C23: an ApproveLeaveRequest for an id of no request changes no request and
\* no balance, and fails with RequestNotFound when approved_by is given.
C23_ApproveUnknownRequest ==
    \A id \in RequestIdInputs, approvedBy \in ApprovedByInputs, fault \in FaultPoints :
        LET r == ApproveLeaveRequestHandler(DB, CurrentYear, id, approvedBy, fault)
        IN  id \notin 1 .. Len(requests) =>
                /\ ApproveUnchanged(r)
                /\ approvedBy # NULL => r.result = "RequestNotFound"

\* an ApproveLeaveRequest was turned down for its id while another request exists
C23_Witness ==
    /\ last.op = "ApproveLeaveRequest" /\ last.result = "RequestNotFound"
    /\ Len(requests) = 1
    /\ last.id = 2

\* C24: after any sequence of CreateLeaveType and UpdateLeaveType calls, every
\* leave type whose carry_forward_allowed is false has max_carry_forward_days 0.
C24_NoCarryForwardMeansZeroDays ==
    \A t \in DOMAIN leave_types :
        ~ leave_types[t].carry_forward_allowed
            => leave_types[t].max_carry_forward_days = 0

\* C25: GetAuditLogs applies a row limit between 1 and 200: 50 when the
\* parameter is absent, n when the parameter is the decimal numeral of an n
\* with 1 <= n <= 200, and no query returns more than 200 rows.
C25_AuditLimitBounded ==
    last.op = "GetAuditLogs" =>
        /\ last.limit \in 1 .. 200
        /\ last.param = << >> => last.limit = 50
        /\ \A n \in 1 .. 200 : last.param = Itoa(n) => last.limit = n
        /\ last.rows <= 200
        /\ last.rows <= last.limit
        /\ last.rows <= last.matching

\* a query asks for 201 rows where 999 match, and gets the default 50
C25_Witness ==
    /\ last.op = "GetAuditLogs"
    /\ last.param = <<"2", "0", "1">>
    /\ last.matching = 999
    /\ last.rows = 50

\* C26: RejectLeaveRequest applied to an approved, rejected or cancelled
\* request leaves its status and its rejection_reason as they are.
C26_RejectOnlyFromPending ==
    \A id \in 1 .. Len(requests), rejectionReason \in {"", "busy"} :
        requests[id].status # "pending" =>
            LET r == RejectLeaveRequestHandler(DB, id, rejectionReason)
            IN  /\ r.requests[id].status = requests[id].status
                /\ r.requests[id].rejection_reason = requests[id].rejection_reason

\* C27: when two ApproveLeaveRequest calls for the same pending request run at
\* the same time, used_days grows by the request's total_days once: the call
\* that commits second, begun while the request was pending and nothing was
\* used, leaves used_days at total_days.
C27_ConcurrentApprovalsCountOnce ==
    [][\A q \in Procs :
          LET loc == inflight[q]
              key == <<loc.employeeID, loc.leaveTypeID, CurrentYear>>
          IN  (/\ loc.op = "ApproveLeaveRequest" /\ loc.pc = "commit"
               /\ inflight'[q] = Idle
               /\ loc.snapshot[key].used_days = 0
               /\ requests[loc.id].status = "approved"
               /\ balances[key].used_days = loc.totalDays)
                  => balances'[key].used_days = loc.totalDays]_vars

\* C28: with handlers running one at a time, no employee has two distinct
\* requests, each pending or approved, whose inclusive date ranges share a day.
C28_NoActiveOverlap ==
    \A i \in 1 .. Len(requests), j \in 1 .. Len(requests) :
        (/\ i # j
         /\ requests[i].employee_id = requests[j].employee_id
         /\ requests[i].status \in {"pending", "approved"}
         /\ requests[j].status \in {"pending", "approved"})
            => ~ Intersects(requests[i].start_date, requests[i].end_date,
                            requests[j].start_date, requests[j].end_date)

\* the sum of total_days over the approved requests among reqs[1..n] of
\* employee e and leave type lt
RECURSIVE ApprovedDays(_, _, _, _)
ApprovedDays(reqs, n, e, lt) ==
    IF n = 0 THEN 0
    ELSE ApprovedDays(reqs, n - 1, e, lt)
         + (IF /\ reqs[n].employee_id = e
               /\ reqs[n].leave_type_id = lt
               /\ reqs[n].status = "approved"
            THEN reqs[n].total_days ELSE 0)

\* C29: within one year and with no UpdateLeaveBalances call, used_days of the
\* balance row of (employee, leave type, current year) is the sum of total_days
\* over that employee's approved requests of that leave type.
C29_UsedDaysIsApprovedSum ==
    \A k \in DOMAIN balances :
        k[3] = CurrentYear =>
            balances[k].used_days = ApprovedDays(requests, Len(requests), k[1], k[2])

\* C30: approving a pending request whose total_days would take used_days above
\* allocated_days + carried_forward_days fails, whoever approves and whatever
\* else goes wrong: the request stays pending with approved_by and approved_at
\* unset and no balance row changes; a well-formed call is answered with the
\* failure of the balance update.
C30_OverdrawApprovalFails ==
    \A id \in 1 .. Len(requests), approvedBy \in ApprovedByInputs, fault \in FaultPoints :
        (requests[id].status = "pending" /\ WouldOverdraw(id)) =>
            LET r == ApproveLeaveRequestHandler(DB, CurrentYear, id, approvedBy, fault)
            IN  /\ r.result # "ok"
                /\ r.requests[id].status = "pending"
                /\ r.requests[id].approved_by = NULL
                /\ r.requests[id].approved_at = NULL
                /\ r.balances = balances
                /\ (approvedBy \in ValidApprovers /\ fault = "none")
                      => r.result = "BalanceUpdateFailed"

\* the approval of a pending request was refused for its balance, and the
\* request is still pending with no approver
C30_Witness ==
    /\ last.op = "ApproveLeaveRequest" /\ last.result = "BalanceUpdateFailed"
    /\ last.pre_status = "pending"
    /\ requests[last.id].status = "pending"
    /\ requests[last.id].approved_by = NULL /\ requests[last.id].approved_at = NULL
    /\ BalanceKeyOf(last.id) \in DOMAIN balances
    /\ requests[last.id].total_days > available_days(balances[BalanceKeyOf(last.id)])

\* C31: admission compares total_days with available_days only, and pending
\* requests take nothing from available_days: two ApplyLeave calls of one
\* employee and leave type, one after the other, for ranges that share no day
\* with each other or with a pending or approved request, each with total_days
\* <= available_days and together with more, are both admitted as pending, and
\* no balance row changes.
C31_JointOverdrawAdmitted ==
    \A employeeID \in EmployeeIds, leaveTypeID \in LeaveTypeIds,
       s1 \in Dates, e1 \in Dates, s2 \in Dates, e2 \in Dates :
        LET key == <<employeeID, leaveTypeID, CurrentYear>>
            r1 == ApplyLeaveHandler(DB, CurrentYear, employeeID, leaveTypeID, s1, e1, "vacation")
            r2 == ApplyLeaveHandler([DB EXCEPT !.requests = r1.requests], CurrentYear,
                                    employeeID, leaveTypeID, s2, e2, "vacation")
        IN  (/\ ReachesBalanceTest(employeeID, leaveTypeID, s1, e1, "vacation")
             /\ ReachesBalanceTest(employeeID, leaveTypeID, s2, e2, "vacation")
             /\ ~ Intersects(s1, e1, s2, e2)
             /\ ~ HasActiveIntersecting(employeeID, s1, e1)
             /\ ~ HasActiveIntersecting(employeeID, s2, e2)
             /\ (e1 - s1) + 1 <= available_days(balances[key])
             /\ (e2 - s2) + 1 <= available_days(balances[key])
             /\ (e1 - s1) + 1 + (e2 - s2) + 1 > available_days(balances[key]))
                => /\ r1.result = "Created" /\ r2.result = "Created"
                   /\ Len(r2.requests) = Len(requests) + 2
                   /\ \A i \in 1 .. Len(requests) : r2.requests[i] = requests[i]
                   /\ \A i \in (Len(requests) + 1) .. (Len(requests) + 2) :
                         /\ r2.requests[i].status = "pending"
                         /\ r2.requests[i].employee_id = employeeID
                         /\ r2.requests[i].leave_type_id = leaveTypeID
                   /\ r2.requests[Len(requests) + 1].total_days = (e1 - s1) + 1
                   /\ r2.requests[Len(requests) + 2].total_days = (e2 - s2) + 1

\* two pending requests of one employee and leave type that share no day, each
\* within available_days and together above it, the second just admitted
C31_Witness ==
    /\ last.op = "ApplyLeave" /\ last.result = "Created"
    /\ \E i \in 1 .. Len(requests), j \in 1 .. Len(requests) :
          /\ i < j /\ j = last.id
          /\ requests[i].employee_id = requests[j].employee_id
          /\ requests[i].leave_type_id = requests[j].leave_type_id
          /\ requests[i].status = "pending" /\ requests[j].status = "pending"
          /\ ~ Intersects(requests[i].start_date, requests[i].end_date,
                          requests[j].start_date, requests[j].end_date)
          /\ BalanceKeyOf(i) \in DOMAIN balances
          /\ requests[i].total_days <= available_days(balances[BalanceKeyOf(i)])
          /\ requests[j].total_days <= available_days(balances[BalanceKeyOf(i)])
          /\ requests[i].total_days + requests[j].total_days
                > available_days(balances[BalanceKeyOf(i)])

\* C32: when the balance row of (the request's employee, its leave type, the
\* current year) does not exist, ApproveLeaveRequest does not answer success
\* and does not leave the request approved with no used_days increment.
C32_ApproveWithoutBalanceRowFails ==
    \A id \in 1 .. Len(requests), approvedBy \in ValidApprovers :
        BalanceKeyOf(id) \notin DOMAIN balances =>
            LET r == ApproveLeaveRequestHandler(DB, CurrentYear, id, approvedBy, "none")
            IN  /\ r.result # "ok"
                /\ r.requests[id].status = "approved" => requests[id].status = "approved"

\* the days a caller of check_leave_overlap may name: the days of Dates, the
\* days between them and the day after the last
OverlapDays == (BaseDay - 1) .. (BaseDay + MaxSpan + 1)

\* C33: check_leave_overlap(employee, start, end, exclude) is true exactly when
\* a request of that employee that is pending or approved, and is not the
\* excluded one, has NOT (end_date < start OR start_date > end); for an ordered
\* range that is: shares a day with it.  A request overlaps a range that is
\* its last day alone and not the day after it, and a cancelled or rejected
\* request overlaps nothing.  Both versions of the function agree.
C33_OverlapExactlyActiveIntersection ==
    \A e \in EmployeeIds, start \in OverlapDays, end \in OverlapDays,
       exclude \in {NULL} \cup (1 .. MaxRequests) :
        LET v == check_leave_overlap(requests, e, start, end, exclude)
            counted(i) == /\ requests[i].employee_id = e
                          /\ requests[i].status \in {"pending", "approved"}
                          /\ exclude # NULL => i # exclude
        IN  /\ v = (\E i \in 1 .. Len(requests) :
                      /\ counted(i)
                      /\ requests[i].end_date >= start
                      /\ requests[i].start_date <= end)
            /\ start <= end =>
                  v = (\E i \in 1 .. Len(requests) :
                          /\ counted(i)
                          /\ Intersects(requests[i].start_date, requests[i].end_date,
                                        start, end))
            /\ v = check_leave_overlap_count(requests, e, start, end, exclude)
            /\ \A i \in 1 .. Len(requests) :
                  LET only == <<requests[i]>>
                      last_day == requests[i].end_date
                      who == requests[i].employee_id
                  IN  /\ requests[i].status \in {"cancelled", "rejected"}
                            => ~ check_leave_overlap(only, who, start, end, NULL)
                      /\ requests[i].status \in {"pending", "approved"}
                            => /\ check_leave_overlap(only, who, last_day, last_day, NULL)
                               /\ ~ check_leave_overlap(only, who, last_day + 1, last_day + 1, NULL)
                               /\ ~ check_leave_overlap(only, who, last_day, last_day, 1)

\* a request was admitted for the very dates of a cancelled or rejected request
\* of the same employee
C33_Witness ==
    /\ last.op = "ApplyLeave" /\ last.result = "Created"
    /\ \E i \in 1 .. Len(requests) :
          /\ i # last.id
          /\ requests[i].status \in {"cancelled", "rejected"}
          /\ requests[i].employee_id = requests[last.id].employee_id
          /\ requests[i].start_date = requests[last.id].start_date
          /\ requests[i].end_date = requests[last.id].end_date
          /\ requests[last.id].status = "pending"

\* C34: RejectLeaveRequest and CancelLeaveRequest on an id of no request answer
\* with a not-found error, never with success, and change no table.
C34_RejectCancelUnknownRequest ==
    \A id \in RequestIdInputs :
        id \notin 1 .. Len(requests) =>
            LET rej == RejectLeaveRequestHandler(DB, id, "busy")
                can == CancelLeaveRequestHandler(DB, CurrentYear, id)
            IN  /\ rej.result = "RequestNotFound"
                /\ rej.requests = requests /\ rej.balances = balances
                /\ can.result = "RequestNotFound"
                /\ can.requests = requests /\ can.balances = balances

\* employees.manager_id of the employee of request id is the caller
InTeam(managers, caller, id) == managers[requests[id].employee_id] = caller.user_id

\* C35: a manager's approve or reject of a request of an employee whose manager
\* is not that caller is denied and changes nothing; a caller with role
\* employee is denied every approve and reject; hr and admin reach the handler
\* for every request.
C35_ManagerLimitedToTeam ==
    \A caller \in Callers, id \in 1 .. Len(requests), managers \in ManagerAssignments :
        LET a == ApproveRoute(DB, CurrentYear, caller, id, 2, "none")
            r == RejectRoute(DB, caller, id, "busy")
        IN  /\ (caller.role = "manager" /\ ~ InTeam(managers, caller, id))
                  => /\ a.result \notin {"ok"} /\ ApproveUnchanged(a)
                     /\ r.result \notin {"ok"} /\ ApproveUnchanged(r)
            /\ caller.role = "employee"
                  => /\ a.result = "Forbidden" /\ ApproveUnchanged(a)
                     /\ r.result = "Forbidden" /\ ApproveUnchanged(r)
            /\ caller.role \in {"hr", "admin"}
                  => /\ a = ApproveLeaveRequestHandler(DB, CurrentYear, id, 2, "none")
                     /\ r = RejectLeaveRequestHandler(DB, id, "busy")

\* the order of the roles: employee < manager < hr < admin
RoleRank(role) ==
    CASE role = "employee" -> 1 [] role = "manager" -> 2 [] role = "hr" -> 3 [] role = "admin" -> 4

\* C39: HasPermission grows with the role in the order employee < manager < hr
\* < admin; admin is permitted every action, hr every action but
\* system_config, and a role that is none of the four is permitted nothing.
C39_HasPermissionMonotone ==
    \A action \in PermissionActions :
        /\ \A lower \in Roles, higher \in Roles :
              (RoleRank(lower) <= RoleRank(higher) /\ HasPermission(lower, action))
                  => HasPermission(higher, action)
        /\ HasPermission("admin", action)
        /\ HasPermission("hr", action) = (action # "system_config")
        /\ ~ HasPermission("", action)
        /\ \A caller \in Callers :
              caller.role \notin Roles =>
                  /\ ~ HasPermission(caller.role, action)
                  /\ \A id \in RequestIdInputs :
                        /\ ApproveRoute(DB, CurrentYear, caller, id, 2, "none").result = "Forbidden"
                        /\ RejectRoute(DB, caller, id, "busy").result = "Forbidden"

\* RequirePermission let a manager through to the approval of a request and
\* turned an employee away before
C39_Witness ==
    /\ last.op = "ApproveLeaveRequest" /\ last.result = "ok"
    /\ last.caller.role = "manager"
    /\ HasPermission("manager", "approve_team_requests")
    /\ ~ HasPermission("employee", "approve_team_requests")

\* the ids that the sequence rows lists
RowsOf(rows) == {rows[k] : k \in 1 .. Len(rows)}

\* C36: ListLeaveRequests returns to an employee exactly their own requests
\* (of the status asked for), whatever employee_id parameter is sent; to a
\* manager exactly the requests of the employees whose manager_id is the
\* caller; to hr and admin every request, narrowed by the employee_id parameter
\* for these two roles only; each request is listed once.
C36_ListShowsOnlyPermitted ==
    \A caller \in Callers, managers \in ManagerAssignments,
       status \in {"", "pending", "approved"},
       employeeIDFilter \in {NULL, 2, GhostId} :
        LET r == ListRoute(requests, managers, caller, status, employeeIDFilter)
            all == 1 .. Len(requests)
            asked(i) == status = "" \/ requests[i].status = status
        IN  /\ Len(r.rows) = Cardinality(RowsOf(r.rows))
            /\ caller.role = "employee" =>
                  RowsOf(r.rows) =
                      {i \in all : requests[i].employee_id = caller.employee_id /\ asked(i)}
            /\ caller.role = "manager" =>
                  RowsOf(r.rows) =
                      {i \in all : managers[requests[i].employee_id] = caller.user_id /\ asked(i)}
            /\ caller.role \in {"hr", "admin"} =>
                  RowsOf(r.rows) =
                      {i \in all : /\ asked(i)
                                   /\ employeeIDFilter # NULL
                                         => requests[i].employee_id = employeeIDFilter}
            /\ caller.role \notin Roles => r.rows = << >>

\* an employee asked for the requests of employee 2, who has one, and was shown
\* their own request only
C36_Witness ==
    /\ last.op = "ListLeaveRequests" /\ last.result = "ok"
    /\ last.caller.role = "employee"
    /\ last.employee_id = 2
    /\ last.rows # << >>
    /\ \A k \in 1 .. Len(last.rows) : requests[last.rows[k]].employee_id = last.caller.employee_id
    /\ \E i \in 1 .. Len(requests) : requests[i].employee_id = 2

\* C37: each refresh token is redeemed successfully at most once: once a
\* RefreshToken call has been answered 200 for a token, no later call and no
\* call running at the same time is answered 200 for the same token; and a
\* token that has expired or is revoked is never accepted.
C37_TokenRedeemedAtMostOnce ==
    /\ \A t \in 1 .. MaxTokens : last.redeemed[t] <= 1
    /\ \A t \in 1 .. Len(refresh_tokens) :
        (refresh_tokens[t].is_revoked \/ refresh_tokens[t].expired)
            => RefreshTokenCheck(refresh_tokens, users, t) = "Unauthorized"

\* C38: when ChangePassword answers 200, every refresh token the user had is
\* revoked, and the refresh tokens of the other users are as they were.
C38_ChangePasswordRevokesTokens ==
    [][\A p \in Procs :
        (/\ inflight[p] # Idle
         /\ inflight[p].op = "ChangePassword"
         /\ inflight'[p] = Idle
         /\ last'.op = "ChangePassword"
         /\ last'.result = "ok")
        => \A t \in 1 .. Len(refresh_tokens) :
            IF refresh_tokens[t].user_id = inflight[p].userID
            THEN refresh_tokens'[t].is_revoked
            ELSE refresh_tokens'[t] = refresh_tokens[t]]_vars

====
